---- MODULE Spec2Model ----
(***************************************************************************)
(* PDF-Fusion: the merge view (src/components/MergeMode.tsx), its page     *)
(* editor (PageEditorModal, second half of src/components/SignMode.tsx)    *)
(* and the stamping view (SignMode, first half of the same file).          *)
(*                                                                         *)
(* One action is one run of JavaScript between two suspension points: an   *)
(* event handler, or the continuation of an async function after an await. *)
(* React state is the value the next render sees.                          *)
(***************************************************************************)
EXTENDS Integers, Sequences, FiniteSets, TLC

\* ------------------------------------------------------------------ bounds
\* Documents that can be produced by normalization tasks in one behaviour.
MaxDocs == 3
\* Files handed to processAndAddFiles in one call.
MaxBatch == 2
\* Page-editor operations (toggle, rotate, selectAll, deselectAll) in one behaviour.
MaxEdits == 2
\* Documents in the list when the page editor is first opened.
MaxListed == 2

\* ----------------------------------------------------------------- strings
\* A JavaScript string is the sequence of its characters.
DotPdf == <<".", "p", "d", "f">>
DefaultName == <<"m", "e", "r", "g", "e", "d", "-", "d", "o", "c", "u", "m", "e", "n", "t">> \o DotPdf

\* String.prototype.endsWith
EndsWith(s, suf) ==
    /\ Len(s) >= Len(suf)
    /\ SubSeq(s, Len(s) - Len(suf) + 1, Len(s)) = suf

\* String.prototype.lastIndexOf for one character, 0-based, -1 when absent.
LastIndexOf(s, ch) ==
    LET hits == {i \in 1..Len(s) : s[i] = ch}
    IN  IF hits = {} THEN -1 ELSE (CHOOSE i \in hits : \A j \in hits : j <= i) - 1

\* name.replace(/\.[^/.]+$/, r): the last dot, when at least one character
\* follows it and none of the following characters is a slash, starts the match.
ReplaceExtension(s, r) ==
    LET d == LastIndexOf(s, ".")
    IN  IF d >= 0 /\ d + 1 < Len(s) /\ \A i \in (d + 2)..Len(s) : s[i] # "/"
        THEN SubSeq(s, 1, d) \o r
        ELSE s

\* --------------------------------------------------------- the user's files
\* A File: its name, its declared MIME type, what its bytes decode to (the
\* intrinsic rotation of each page once the bytes are a PDF) and whether the
\* decoders accept the bytes.
MimePdf == "application/pdf"
MimePng == "image/png"
MimeJpeg == "image/jpeg"
MimeDoc == "application/msword"
MimeDocx == "application/vnd.openxmlformats-officedocument.wordprocessingml.document"
MimeXls == "application/vnd.ms-excel"
MimeXlsx == "application/vnd.openxmlformats-officedocument.spreadsheetml.sheet"
MimeText == "text/plain"

PdfA == [name |-> <<"a">> \o DotPdf, type |-> MimePdf, content |-> "pdf",
         pages |-> <<270, 0>>, ok |-> TRUE]
PngB == [name |-> <<"b", ".", "p", "n", "g">>, type |-> MimePng, content |-> "image",
         pages |-> <<0>>, ok |-> TRUE]
PngBad == [name |-> <<"c", ".", "p", "n", "g">>, type |-> MimePng, content |-> "image",
           pages |-> <<0>>, ok |-> FALSE]
DocxW == [name |-> <<"w", ".", "d", "o", "c", "x">>, type |-> MimeDocx, content |-> "office",
          pages |-> <<0>>, ok |-> TRUE]
TxtD == [name |-> <<"d", ".", "t", "x", "t">>, type |-> MimeText, content |-> "other",
         pages |-> <<>>, ok |-> TRUE]

UserFiles == {PdfA, PngB, PngBad, DocxW, TxtD}
\* A PDF whose bytes PDFDocument.load rejects (damaged or encrypted)
PdfX == [name |-> <<"x">> \o DotPdf, type |-> MimePdf, content |-> "pdf",
         pages |-> <<0>>, ok |-> FALSE]
\* The files of the merge runs
MergeUserFiles == {PdfA, PdfX}

\* Files for which the browser reports no MIME type (File.type is ''): an
\* image and a Word document, known by their suffix only.
MimeNone == ""
PngS == [name |-> <<"e", ".", "p", "n", "g">>, type |-> MimeNone, content |-> "image",
         pages |-> <<0>>, ok |-> TRUE]
DocxS == [name |-> <<"v", ".", "d", "o", "c", "x">>, type |-> MimeNone, content |-> "office",
          pages |-> <<0>>, ok |-> TRUE]
\* The files of the ingestion runs: each is accepted by the filter
IngestUserFiles == {PdfA, PngB, DocxW, PngS, DocxS}

\* The FileList values a file dialog or a drop can deliver.
FileLists == UNION {[1..n -> UserFiles] : n \in 1..MaxBatch}
MergeFileLists == UNION {[1..n -> MergeUserFiles] : n \in 1..MaxBatch}
\* A PDF whose name has its extension in capitals
PdfUpper == [name |-> <<"s", ".", "P", "D", "F">>, type |-> MimePdf, content |-> "pdf",
             pages |-> <<0>>, ok |-> TRUE]
\* The files of the list runs, handed over one at a time
ListUserFiles == {PdfUpper, DocxW}
ListFileLists == {<<f>> : f \in ListUserFiles}
\* The texts the user gives the name field
NameTexts == {<<>>, <<" ", "r", " ">>, <<"r", ".", "P", "d", "f">>}
IngestFileLists == UNION {[1..n -> IngestUserFiles] : n \in 1..MaxBatch}

\* ------------------------------------------------------------------- state
VARIABLES
    \* MergeMode's React state
    files,              \* AppFile[]: [id, file, type, pageConfig]; pageConfig is
                        \* <<>> (undefined) or <<c>> with c a map index -> PageConfig
    mergedFileName,
    isMerging,
    isProcessing,
    error,
    fileNameSourceId,   \* 0 is null
    isCompressionEnabled,
    editor,             \* editingPagesFile and the PageEditorModal mounted for it
    draggedItem,        \* the refs of the reordering, an index of the list or
    dragOverItem,       \* NoIndex (null)
    dragging,           \* the list item the browser is dragging
    \* async functions suspended at an await
    pending,            \* processAndAddFiles calls waiting in Promise.all
    merge,              \* the runMergeProcess call in flight
    \* what left the program
    delivered,          \* artifacts handed to the save collaborator by the merge
    \* bookkeeping of the verification
    fate,               \* id -> what became of the document with that id
    edits,              \* page-editor operations so far
    \* SignMode's React state (<<>> is null)
    pdfs,               \* SignFile[]: [file]; ids are unique, an element is
                        \* identified by its place in the list
    signatureImage,     \* the File of the signature; signatureUrl is set with it
    sigImageDims,
    signError,          \* SignMode's `error`
    isSigning,
    useVisualPlacement,
    position,
    pagesToSign,
    signatureScale,
    pdfPageDimensions,
    canvasDims,
    dragPos,
    isDragging,
    \* the DOM and the async work of SignMode
    canvas,             \* the mounted <canvas>: <<>> or its size on screen
    preview,            \* renderPage calls still active, as the files they render
    imgLoading,         \* Image objects whose onload has not fired, as their files
    signing,            \* the handleSign call in flight: the values its closure holds
    stamped,            \* the download this step triggered: <<>> or the signed pdfs
    gestures            \* gestures of the user on the stamping view so far

dragVars == <<draggedItem, dragOverItem, dragging>>
mergeVars == <<files, mergedFileName, isMerging, isProcessing, error, fileNameSourceId,
               isCompressionEnabled, editor, pending, merge, delivered, fate, edits, dragVars>>
signVars == <<pdfs, signatureImage, sigImageDims, signError, isSigning, useVisualPlacement,
              position, pagesToSign, signatureScale, pdfPageDimensions, canvasDims, dragPos,
              isDragging, canvas, preview, imgLoading, signing, stamped, gestures>>

NoError == "null"
ErrInvalid == "Ninguno de los archivos seleccionados es un formato valido"
ErrProcess == "Ocurrio un error al procesar uno de los archivos"
ErrMerge == "Ocurrio un error al fusionar los archivos"

Ids(fs) == {fs[i].id : i \in DOMAIN fs}
DocIds == 1..MaxDocs
FreeIds == {i \in DocIds : fate[i] = "none"}
\* The n-th smallest id no document has had yet (Math.random() never repeats).
NthFree(n) == CHOOSE i \in FreeIds : Cardinality({j \in FreeIds : j < i}) = n - 1

\* ------------------------------------------------------- processAndAddFiles
AllowedTypes == {MimePdf, MimeJpeg, MimePng, MimeDoc, MimeDocx, MimeXls, MimeXlsx}
Dot(ext) == <<".">> \o ext
IsValidFile(f) ==
    \/ f.type \in AllowedTypes
    \/ EndsWith(f.name, Dot(<<"d", "o", "c">>)) \/ EndsWith(f.name, Dot(<<"d", "o", "c", "x">>))
    \/ EndsWith(f.name, Dot(<<"x", "l", "s">>)) \/ EndsWith(f.name, Dot(<<"x", "l", "s", "x">>))
    \/ EndsWith(f.name, DotPdf) \/ EndsWith(f.name, Dot(<<"j", "p", "g">>))
    \/ EndsWith(f.name, Dot(<<"j", "p", "e", "g">>)) \/ EndsWith(f.name, Dot(<<"p", "n", "g">>))

IsImageType(f) == f.type = MimeJpeg \/ f.type = MimePng
\* file.type.includes('word'), over the MIME types a browser reports
IsWord(f) ==
    \/ f.type \in {MimeDoc, MimeDocx}
    \/ EndsWith(f.name, Dot(<<"d", "o", "c">>)) \/ EndsWith(f.name, Dot(<<"d", "o", "c", "x">>))
\* file.type.includes('excel') || file.type.includes('spreadsheet')
IsExcel(f) ==
    \/ f.type \in {MimeXls, MimeXlsx}
    \/ EndsWith(f.name, Dot(<<"x", "l", "s">>)) \/ EndsWith(f.name, Dot(<<"x", "l", "s", "x">>))

\* Which branch of the task runs for a file.
TaskKind(f) ==
    IF IsImageType(f) THEN "image"
    ELSE IF IsWord(f) THEN "word"
    ELSE IF IsExcel(f) THEN "excel"
    ELSE "pdf"

\* compressImage: the canvas re-encoding of a decodable image, as a JPEG of the
\* same name; it rejects when the browser cannot decode the image.
CompressImage(f) ==
    IF f.ok /\ f.content = "image"
    THEN [ok |-> TRUE, file |-> [f EXCEPT !.type = MimeJpeg]]
    ELSE [ok |-> FALSE, file |-> f]

\* convertImageToPdf: embedJpg / embedPng throw on bytes they cannot decode.
ConvertImageToPdf(f) ==
    LET d == LastIndexOf(f.name, ".")
        sub == IF d <= 0 THEN <<>> ELSE SubSeq(f.name, 1, d)
        originalName == IF sub = <<>> THEN f.name ELSE sub
    IN  IF IsImageType(f) /\ f.ok /\ f.content = "image"
        THEN [ok |-> TRUE,
              file |-> [name |-> originalName \o DotPdf, type |-> MimePdf, content |-> "pdf",
                        pages |-> <<0>>, ok |-> TRUE]]
        ELSE [ok |-> FALSE, file |-> f]

\* convertOfficeToPdf: mammoth / XLSX reject bytes they cannot read.
ConvertOfficeToPdf(f) ==
    IF f.ok /\ f.content = "office"
    THEN [ok |-> TRUE,
          file |-> [name |-> ReplaceExtension(f.name, DotPdf), type |-> MimePdf,
                    content |-> "pdf", pages |-> f.pages, ok |-> TRUE]]
    ELSE [ok |-> FALSE, file |-> f]

\* The body of one task of the map: the converted file and the list icon's type.
Normalize(f, compress) ==
    LET kind == TaskKind(f)
    IN  IF kind = "image"
        THEN LET c == IF compress THEN CompressImage(f) ELSE [ok |-> FALSE, file |-> f]
                 imageToConvert == IF c.ok THEN c.file ELSE f
                 r == ConvertImageToPdf(imageToConvert)
             IN  [ok |-> r.ok, file |-> r.file, type |-> "pdf"]
        ELSE IF kind = "word" \/ kind = "excel"
        THEN LET r == ConvertOfficeToPdf(f)
             IN  [ok |-> r.ok, file |-> r.file, type |-> kind]
        ELSE [ok |-> TRUE, file |-> f, type |-> "pdf"]

\* A task with no await in its branch has run to its return before map returns.
IsSynchronous(f) == TaskKind(f) = "pdf"

\* The AppFile a fulfilled task returned.
TaskValue(t) ==
    LET r == Normalize(t.file, t.compress)
    IN  [id |-> t.id, file |-> r.file, type |-> r.type, pageConfig |-> <<>>]

\* A join that hands over the values in the order in which the tasks settled.
PromiseAllByCompletion(tasks, order) ==
    IF \E i \in DOMAIN tasks : tasks[i].state = "rejected"
    THEN [state |-> "rejected", value |-> <<>>]
    ELSE IF \E i \in DOMAIN tasks : tasks[i].state = "pending"
    THEN [state |-> "pending", value |-> <<>>]
    ELSE [state |-> "fulfilled", value |-> [k \in DOMAIN order |-> TaskValue(tasks[order[k]])]]

\* A join that waits for every task and hands over the values of those that
\* were fulfilled.
PromiseAllSettled(tasks, order) ==
    IF \E i \in DOMAIN tasks : tasks[i].state = "pending"
    THEN [state |-> "pending", value |-> <<>>]
    ELSE [state |-> "fulfilled",
          value |-> LET good == SelectSeq([i \in DOMAIN tasks |-> i],
                                          LAMBDA i : tasks[i].state = "fulfilled")
                    IN  [k \in DOMAIN good |-> TaskValue(tasks[good[k]])]]

\* Promise.all over the tasks' promises: rejected as soon as one is, fulfilled
\* with the values by index once all are.
PromiseAll(tasks, order) ==
    IF \E i \in DOMAIN tasks : tasks[i].state = "rejected"
    THEN [state |-> "rejected", value |-> <<>>]
    ELSE IF \E i \in DOMAIN tasks : tasks[i].state = "pending"
    THEN [state |-> "pending", value |-> <<>>]
    ELSE [state |-> "fulfilled", value |-> [i \in DOMAIN tasks |-> TaskValue(tasks[i])]]

\* setFiles(prevFiles => [...prevFiles, ...newFiles])
AppendNewFiles(prevFiles, newFiles) == prevFiles \o newFiles

\* Ids of the documents the tasks of a batch have returned so far.
ReturnedIds(tasks) == {tasks[i].id : i \in {j \in DOMAIN tasks : tasks[j].state = "fulfilled"}}
Tainted(tasks) == \E i \in DOMAIN tasks : tasks[i].state = "rejected"

\* The continuation of processAndAddFiles once its tasks are `tasks` (`order`:
\* the order in which they settled).  Promise.all's reaction and the await's
\* continuation are microtasks: they run before any other event.  `settled` and
\* `waiting` are the pending calls after the call has / has not left the await;
\* fate0, error0, processing0 are the values written before the await.
Join(tasks, order, settled, waiting, fate0, error0, processing0) ==
    \E j \in {PromiseAll(tasks, order)} :
        IF j.state = "fulfilled"
        THEN /\ files' = AppendNewFiles(files, j.value)
             /\ fate' = [i \in DocIds |->
                           IF i \in Ids(j.value) /\ fate0[i] = "task" THEN "listed" ELSE fate0[i]]
             /\ error' = error0
             /\ isProcessing' = FALSE
             /\ pending' = settled
        ELSE IF j.state = "rejected"
        THEN /\ error' = ErrProcess
             /\ isProcessing' = FALSE
             /\ pending' = settled
             /\ fate' = fate0
             /\ UNCHANGED files
        ELSE /\ pending' = waiting
             /\ fate' = fate0
             /\ error' = error0
             /\ isProcessing' = processing0
             /\ UNCHANGED files

\* Tasks still to settle, over all pending calls.
Unsettled(ps) ==
    LET n[k \in 0..Len(ps)] ==
          IF k = 0 THEN 0
          ELSE n[k - 1] + Cardinality({i \in DOMAIN ps[k].tasks : ps[k].tasks[i].state = "pending"})
    IN  n[Len(ps)]

\* processAndAddFiles up to its first suspension (or to its end, when no task
\* of the batch awaits anything).
ProcessAndAddFiles(filesToAdd) ==
    LET validFiles == SelectSeq(filesToAdd, IsValidFile)
        syncIdx == {i \in DOMAIN validFiles : IsSynchronous(validFiles[i])}
        rank(i) == Cardinality({j \in syncIdx : j <= i})
        tasks == [i \in DOMAIN validFiles |->
                    [file |-> validFiles[i], compress |-> isCompressionEnabled,
                     state |-> IF i \in syncIdx THEN "fulfilled" ELSE "pending",
                     id |-> IF i \in syncIdx THEN NthFree(rank(i)) ELSE 0]]
        order == SelectSeq([i \in DOMAIN validFiles |-> i], LAMBDA i : i \in syncIdx)
        fate0 == [i \in DocIds |-> IF i \in ReturnedIds(tasks) THEN "task" ELSE fate[i]]
        call == [tasks |-> tasks, order |-> order]
    IN  /\ Cardinality(FreeIds) >= Unsettled(pending) + Len(validFiles)
        /\ IF validFiles = <<>>
           THEN /\ error' = ErrInvalid
                /\ isProcessing' = FALSE
                /\ UNCHANGED <<files, pending, fate>>
           ELSE Join(tasks, order, pending, Append(pending, call), fate0, NoError, TRUE)
        /\ UNCHANGED <<mergedFileName, isMerging, fileNameSourceId, isCompressionEnabled,
                       editor, merge, delivered, edits>>
        /\ UNCHANGED dragVars
        /\ UNCHANGED signVars

\* The page editor is a full-window overlay (fixed inset-0): while it is
\* mounted the controls of the merge view receive no pointer event.
ViewReachable == ~editor.open

\* <input type="file" onChange>, disabled while isProcessing
HandleFileChange(selectedFiles) ==
    /\ ViewReachable
    /\ ~isProcessing
    /\ ProcessAndAddFiles(selectedFiles)

\* onDrop of the drop zone: never disabled
HandleDrop(droppedFiles) ==
    /\ ViewReachable
    /\ Len(droppedFiles) > 0
    /\ ProcessAndAddFiles(droppedFiles)

\* Task i of the k-th pending call reaches its return, or throws.
TaskSettles(k, i) ==
    /\ k \in DOMAIN pending
    /\ i \in DOMAIN pending[k].tasks
    /\ pending[k].tasks[i].state = "pending"
    /\ \E call \in {pending[k]} :
       \E r \in {Normalize(call.tasks[i].file, call.tasks[i].compress)} :
       \E tasks \in {[call.tasks EXCEPT ![i] =
                        IF r.ok THEN [@ EXCEPT !.state = "fulfilled", !.id = NthFree(1)]
                        ELSE [@ EXCEPT !.state = "rejected"]]} :
       \E order \in {Append(call.order, i)} :
       \E fate0 \in {[d \in DocIds |->
                        IF d \in ReturnedIds(tasks) /\ fate[d] \in {"none", "task"}
                        THEN (IF Tainted(tasks) THEN "failed" ELSE "task")
                        ELSE fate[d]]} :
       \E settled \in {[n \in 1..(Len(pending) - 1) |->
                          IF n < k THEN pending[n] ELSE pending[n + 1]]} :
       \E waiting \in {[pending EXCEPT ![k] = [tasks |-> tasks, order |-> order]]} :
           Join(tasks, order, settled, waiting, fate0, error, isProcessing)
    /\ UNCHANGED <<mergedFileName, isMerging, fileNameSourceId, isCompressionEnabled,
                   editor, merge, delivered, edits>>
    /\ UNCHANGED dragVars
    /\ UNCHANGED signVars

\* ---------------------------------------------------------------- removeFile
NoSource == 0
\* useRef<number | null>(null)
NoIndex == -1
\* No list item is being dragged.  (`len`: the length of the list at the start
\* of the drag; `moved`: whether the last handleSort moved a document to
\* another place, and whether the list had grown during that drag; `drags`:
\* the drags so far; all three kept for the verification.)
NoDrag == [doc |-> 0, entered |-> FALSE, len |-> 0, moved |-> "no", drags |-> 0]
\* Drags of a list item in one behaviour
MaxDrags == 2

\* a removal that leaves the name-source flag alone
RemoveFileKeepingFlag(idToRemove) ==
    /\ ViewReachable
    /\ idToRemove \in Ids(files)
    /\ UNCHANGED <<fileNameSourceId, mergedFileName>>
    /\ files' = SelectSeq(files, LAMBDA f : f.id # idToRemove)
    /\ fate' = [fate EXCEPT ![idToRemove] = "removed"]
    /\ UNCHANGED <<isMerging, isProcessing, error, isCompressionEnabled, editor, pending,
                   merge, delivered, edits>>
    /\ UNCHANGED dragVars
    /\ UNCHANGED signVars

RemoveFile(idToRemove) ==
    /\ ViewReachable
    /\ idToRemove \in Ids(files)
    /\ IF idToRemove = fileNameSourceId
       THEN fileNameSourceId' = NoSource /\ mergedFileName' = DefaultName
       ELSE UNCHANGED <<fileNameSourceId, mergedFileName>>
    /\ files' = SelectSeq(files, LAMBDA f : f.id # idToRemove)
    /\ fate' = [fate EXCEPT ![idToRemove] = "removed"]
    /\ UNCHANGED <<isMerging, isProcessing, error, isCompressionEnabled, editor, pending,
                   merge, delivered, edits>>
    /\ UNCHANGED dragVars
    /\ UNCHANGED signVars

\* handleFileNameSourceChange, from the checkbox of the document with this id
HandleFileNameSourceChange(id) ==
    /\ ViewReachable
    /\ id \in Ids(files)
    /\ LET selectedFile == files[CHOOSE i \in DOMAIN files : files[i].id = id]
       IN  IF fileNameSourceId = selectedFile.id
           THEN /\ fileNameSourceId' = NoSource
                /\ mergedFileName' = DefaultName
           ELSE /\ fileNameSourceId' = selectedFile.id
                /\ mergedFileName' = IF selectedFile.type = "pdf" THEN selectedFile.file.name
                                      ELSE ReplaceExtension(selectedFile.file.name, DotPdf)
    /\ UNCHANGED <<files, isMerging, isProcessing, error, isCompressionEnabled, editor,
                   pending, merge, delivered, fate, edits>>
    /\ UNCHANGED dragVars
    /\ UNCHANGED signVars

\* handleCustomFileNameChange: onChange of the name field, which is rendered
\* while the list is not empty
HandleCustomFileNameChange(value) ==
    /\ ViewReachable
    /\ Len(files) > 0
    /\ value # mergedFileName
    /\ mergedFileName' = value
    /\ fileNameSourceId' = NoSource
    /\ UNCHANGED <<files, isMerging, isProcessing, error, isCompressionEnabled, editor,
                   pending, merge, delivered, fate, edits>>
    /\ UNCHANGED dragVars
    /\ UNCHANGED signVars

\* ------------------------------------------------------------------ handleSort
\* filesClone[i] of an index the array does not have
Undefined == [id |-> 0, file |-> PdfA, type |-> "undefined", pageConfig |-> <<>>]

\* Array.prototype.splice(start, 1) and splice(start, 0, item), 0-based; a
\* start beyond the length is the length.
SpliceOut(a, start) ==
    IF start >= Len(a) THEN a
    ELSE [i \in 1..(Len(a) - 1) |-> IF i <= start THEN a[i] ELSE a[i + 1]]
SpliceIn(a, start, item) ==
    LET at == IF start > Len(a) THEN Len(a) ELSE start
    IN  [i \in 1..(Len(a) + 1) |->
            IF i <= at THEN a[i] ELSE IF i = at + 1 THEN item ELSE a[i - 1]]

\* a reordering that exchanges the two documents
SwappedFiles(fs, dragged, over) ==
    IF dragged = NoIndex \/ over = NoIndex THEN fs
    ELSE [i \in DOMAIN fs |->
            IF i = dragged + 1 /\ over < Len(fs) THEN fs[over + 1]
            ELSE IF i = over + 1 /\ dragged < Len(fs) THEN fs[dragged + 1]
            ELSE fs[i]]

\* The list handleSort passes to setFiles (the list itself on the early return)
SortedFiles(fs, dragged, over) ==
    IF dragged = NoIndex \/ over = NoIndex THEN fs
    ELSE LET temp == IF dragged < Len(fs) THEN fs[dragged + 1] ELSE Undefined
         IN  SpliceIn(SpliceOut(fs, dragged), over, temp)

\* The browser is dragging a list item that is still mounted (the items are
\* keyed by the document's id).
DragInProgress == dragging.doc # 0 /\ dragging.doc \in Ids(files)
\* One pointer: while an item is dragged the user clicks nothing else.
PointerFree == ~DragInProgress

\* onDragStart of the item at `index`
DragStart(index) ==
    /\ ViewReachable
    /\ PointerFree
    /\ index \in 0..(Len(files) - 1)
    /\ draggedItem' = index
    /\ dragging.drags < MaxDrags
    /\ dragging' = [doc |-> files[index + 1].id, entered |-> FALSE, len |-> Len(files),
                    moved |-> "no", drags |-> dragging.drags + 1]
    /\ UNCHANGED <<files, mergedFileName, isMerging, isProcessing, error, fileNameSourceId,
                   isCompressionEnabled, editor, pending, merge, delivered, fate, edits,
                   dragOverItem>>
    /\ UNCHANGED signVars

\* onDragEnter of the item at `index`: the dragged item enters it (the first
\* item it enters is the one under the pointer at the start).
DragEnter(index) ==
    /\ DragInProgress
    /\ index \in 0..(Len(files) - 1)
    /\ dragOverItem' = index
    /\ dragging' = [dragging EXCEPT !.entered = TRUE]
    /\ UNCHANGED <<files, mergedFileName, isMerging, isProcessing, error, fileNameSourceId,
                   isCompressionEnabled, editor, pending, merge, delivered, fate, edits,
                   draggedItem>>
    /\ UNCHANGED signVars

\* onDragEnd of the dragged item -> handleSort.  (React delivers the event
\* only while the item is mounted.)
HandleSort ==
    /\ DragInProgress
    /\ dragging.entered
    /\ files' = SortedFiles(files, draggedItem, dragOverItem)
    /\ IF draggedItem = NoIndex \/ dragOverItem = NoIndex
       THEN UNCHANGED <<draggedItem, dragOverItem>>
       ELSE draggedItem' = NoIndex /\ dragOverItem' = NoIndex
    /\ dragging' = [NoDrag EXCEPT !.moved = IF draggedItem = dragOverItem THEN "no"
                                            ELSE IF Len(files) > dragging.len THEN "grown"
                                            ELSE "yes",
                                  !.drags = dragging.drags]
    /\ UNCHANGED <<mergedFileName, isMerging, isProcessing, error, fileNameSourceId,
                   isCompressionEnabled, editor, pending, merge, delivered, fate, edits>>
    /\ UNCHANGED signVars

\* ------------------------------------------------------ createMergedPdfBlob
\* String.prototype.trim / toLowerCase
IsSpace(c) == c = " "
Trim(s) ==
    LET keep == {i \in 1..Len(s) : ~IsSpace(s[i])}
    IN  IF keep = {} THEN <<>>
        ELSE SubSeq(s, CHOOSE i \in keep : \A j \in keep : i <= j,
                       CHOOSE i \in keep : \A j \in keep : j <= i)
Upper == <<"A", "B", "C", "D", "E", "F", "G", "H", "I", "J", "K", "L", "M",
           "N", "O", "P", "Q", "R", "S", "T", "U", "V", "W", "X", "Y", "Z">>
Lower == <<"a", "b", "c", "d", "e", "f", "g", "h", "i", "j", "k", "l", "m",
           "n", "o", "p", "q", "r", "s", "t", "u", "v", "w", "x", "y", "z">>
ToLowerCase(s) ==
    [i \in 1..Len(s) |->
        IF \E k \in 1..26 : Upper[k] = s[i]
        THEN Lower[CHOOSE k \in 1..26 : Upper[k] = s[i]]
        ELSE s[i]]

\* a rule that compares the ending without toLowerCase
FinalNameCaseSensitive(name) ==
    LET trimmed == Trim(name)
        finalName == IF trimmed = <<>> THEN DefaultName ELSE trimmed
    IN  IF EndsWith(finalName, DotPdf) THEN finalName ELSE finalName \o DotPdf

\* a rule that appends '.pdf' whatever the ending
FinalNameAlwaysAppends(name) ==
    LET trimmed == Trim(name)
        finalName == IF trimmed = <<>> THEN DefaultName ELSE trimmed
    IN  finalName \o DotPdf

\* let finalName = mergedFileName.trim(); ... finalName += '.pdf'
FinalName(name) ==
    LET Ensured(finalName) ==
            IF EndsWith(ToLowerCase(finalName), DotPdf) THEN finalName ELSE finalName \o DotPdf
    IN  CHOOSE result \in {Ensured(IF trimmed = <<>> THEN DefaultName ELSE trimmed) :
                              trimmed \in {Trim(name)}} : TRUE

\* pdf-lib's setRotation stores the angle it is given; the caller passes
\* currentRotation + config.rotation.
SetRotation(currentRotation, rotation) == currentRotation + rotation

\* appFile.pageConfig && appFile.pageConfig[index]
HasPageConfig(appFile, index) ==
    /\ appFile.pageConfig # <<>>
    /\ index \in DOMAIN appFile.pageConfig[1]

\* A forEach body without `if (!config.selected) return`.
AddedPageIgnoringSelection(appFile, index) ==
    LET intrinsic == appFile.file.pages[index + 1]
    IN  IF HasPageConfig(appFile, index)
        THEN LET config == appFile.pageConfig[1][index]
             IN  <<[doc |-> appFile.id, index |-> index,
                    rotation |-> IF config.rotation # 0
                                 THEN SetRotation(intrinsic, config.rotation)
                                 ELSE intrinsic]>>
        ELSE <<[doc |-> appFile.id, index |-> index, rotation |-> intrinsic]>>

\* A forEach body that adds only the pages that have a configuration entry.
AddedPageDroppingUnconfigured(appFile, index) ==
    LET intrinsic == appFile.file.pages[index + 1]
    IN  IF HasPageConfig(appFile, index)
        THEN LET config == appFile.pageConfig[1][index]
             IN  IF ~config.selected THEN <<>>
                 ELSE <<[doc |-> appFile.id, index |-> index,
                         rotation |-> IF config.rotation # 0
                                      THEN SetRotation(intrinsic, config.rotation)
                                      ELSE intrinsic]>>
        ELSE <<>>

\* The forEach body for page `index` (0-based) of the copied pages: the pages
\* it adds to mergedPdf, each [doc, index, rotation].
AddedPage(appFile, index) ==
    LET intrinsic == appFile.file.pages[index + 1]
    IN  IF HasPageConfig(appFile, index)
        THEN LET config == appFile.pageConfig[1][index]
             IN  IF ~config.selected THEN <<>>
                 ELSE <<[doc |-> appFile.id, index |-> index,
                         rotation |-> IF config.rotation # 0
                                      THEN SetRotation(intrinsic, config.rotation)
                                      ELSE intrinsic]>>
        ELSE <<[doc |-> appFile.id, index |-> index, rotation |-> intrinsic]>>

\* PDFDocument.load accepts the bytes of a file
Loadable(file) == file.ok /\ file.content = "pdf"

\* copyPages(pdf, pdf.getPageIndices()) followed by the forEach
CopiedPages(appFile) ==
    LET n == Len(appFile.file.pages)
        acc[k \in 0..n] == IF k = 0 THEN <<>> ELSE acc[k - 1] \o AddedPage(appFile, k - 1)
    IN  acc[n]

\* ------------------------------------------------------------ runMergeProcess
\* (`ended`: how the last call of runMergeProcess ended, kept for the
\* verification.)
NoMerge == [pc |-> "idle", files |-> <<>>, k |-> 0, out |-> <<>>, read |-> <<>>, name |-> <<>>,
            method |-> "download", shared |-> [d \in DocIds |-> {}], ended |-> "none"]
NoArtifact == <<>>

\* Indices of the stored configuration of an AppFile
ConfigIndices(appFile) == IF appFile.pageConfig = <<>> THEN {} ELSE DOMAIN appFile.pageConfig[1]

\* onClick of the two merge buttons, rendered while files.length > 0 and
\* disabled while isMerging; 'saveAs' is rendered only where the picker exists.
RunMergeProcess(saveMethod) ==
    /\ ViewReachable
    /\ Len(files) > 0
    /\ ~isMerging
    /\ isMerging' = TRUE
    /\ error' = NoError
    /\ merge' = [pc |-> "loading", files |-> files, k |-> 1, out |-> <<>>, read |-> <<>>,
                 name |-> mergedFileName, method |-> saveMethod,
                 shared |-> [d \in DocIds |->
                               IF \E i \in DOMAIN files : files[i].id = d
                               THEN ConfigIndices(files[CHOOSE i \in DOMAIN files : files[i].id = d])
                               ELSE {}],
                 ended |-> "none"]
    /\ UNCHANGED <<files, mergedFileName, isProcessing, fileNameSourceId, isCompressionEnabled,
                   editor, pending, delivered, fate, edits>>
    /\ UNCHANGED dragVars
    /\ UNCHANGED signVars

\* What the save collaborator receives: the suggested name and the blob's pages
\* (`read`: the AppFiles as the loop read them, kept for the verification).
Artifact == [name |-> FinalName(merge.name), pages |-> merge.out, read |-> merge.read]

\* a catch that hands the pages copied so far to the download
MergeThrowsWithPartialArtifact ==
    /\ error' = ErrMerge
    /\ isMerging' = FALSE
    /\ merge' = [NoMerge EXCEPT !.ended = "Error"]
    /\ delivered' = <<[name |-> FinalName(merge.name), pages |-> merge.out, read |-> merge.read]>>
    /\ UNCHANGED <<files, mergedFileName, fileNameSourceId, fate>>

\* catch (e) of runMergeProcess for an error other than AbortError, then finally
MergeThrows ==
    /\ error' = ErrMerge
    /\ isMerging' = FALSE
    /\ merge' = [NoMerge EXCEPT !.ended = "Error"]
    /\ UNCHANGED <<files, mergedFileName, fileNameSourceId, delivered, fate>>

\* a catch without the test of e.name
MergeAbortedReported ==
    /\ error' = ErrMerge
    /\ isMerging' = FALSE
    /\ merge' = [NoMerge EXCEPT !.ended = "AbortError"]
    /\ UNCHANGED <<files, mergedFileName, fileNameSourceId, delivered, fate>>

\* a return from the catch that skips the finally block
MergeAbortedKeepingBusy ==
    /\ merge' = [NoMerge EXCEPT !.ended = "AbortError"]
    /\ UNCHANGED <<files, mergedFileName, isMerging, error, fileNameSourceId, delivered, fate>>

\* catch (e) of runMergeProcess for e.name === 'AbortError': return, then finally
MergeAborted ==
    /\ isMerging' = FALSE
    /\ merge' = [NoMerge EXCEPT !.ended = "AbortError"]
    /\ UNCHANGED <<files, mergedFileName, error, fileNameSourceId, delivered, fate>>

\* The statements after the save step, then finally.
MergeSucceeds(artifact) ==
    /\ delivered' = <<artifact>>
    /\ files' = <<>>
    /\ fileNameSourceId' = NoSource
    /\ mergedFileName' = DefaultName
    /\ isMerging' = FALSE
    /\ merge' = [NoMerge EXCEPT !.ended = "saved"]
    /\ fate' = [d \in DocIds |-> IF d \in Ids(merge.files) THEN "merged" ELSE fate[d]]
    /\ UNCHANGED error

\* One turn of the for loop of createMergedPdfBlob: arrayBuffer, load, copyPages.
MergeLoadsDocument ==
    /\ merge.pc = "loading"
    /\ merge.k <= Len(merge.files)
    /\ LET appFile == merge.files[merge.k]
       IN  IF Loadable(appFile.file)
           THEN /\ merge' = [merge EXCEPT !.k = @ + 1, !.out = @ \o CopiedPages(appFile),
                                             !.read = Append(@, appFile)]
                /\ UNCHANGED <<files, mergedFileName, isMerging, error, fileNameSourceId,
                               delivered, fate>>
           ELSE MergeThrows
    /\ UNCHANGED <<isProcessing, isCompressionEnabled, editor, pending, edits>>
    /\ UNCHANGED dragVars
    /\ UNCHANGED signVars

\* mergedPdf.save() returns: the blob exists, the name is resolved, and either
\* the download link is clicked or the save picker opens.
MergeSerializes ==
    /\ merge.pc = "loading"
    /\ merge.k > Len(merge.files)
    /\ IF merge.method = "saveAs"
       THEN /\ merge' = [merge EXCEPT !.pc = "picking"]
            /\ UNCHANGED <<files, mergedFileName, isMerging, error, fileNameSourceId,
                           delivered, fate>>
       ELSE MergeSucceeds(Artifact)
    /\ UNCHANGED <<isProcessing, isCompressionEnabled, editor, pending, edits>>
    /\ UNCHANGED dragVars
    /\ UNCHANGED signVars

\* showSaveFilePicker / createWritable / write / close return or throw.
SavePickerReturns(outcome) ==
    /\ merge.pc = "picking"
    /\ \/ /\ outcome = "saved"
          /\ MergeSucceeds(Artifact)
       \/ /\ outcome = "AbortError"
          /\ MergeAborted
       \/ /\ outcome = "Error"
          /\ MergeThrows
    /\ UNCHANGED <<isProcessing, isCompressionEnabled, editor, pending, edits>>
    /\ UNCHANGED dragVars
    /\ UNCHANGED signVars

\* ------------------------------------------------------------ PageEditorModal
\* The state of the modal.  `task`: a loadPdf of the current effect is in
\* flight; `shared`: the indices whose entry object is the one the stored
\* configuration of the AppFile `owner` holds; `switches`: how often the file
\* prop changed while the modal was mounted; `crashed`: a render threw and
\* React unmounted the tree; `before`: the stored configurations when the
\* modal was opened, kept for the verification.
NoEditor == [open |-> FALSE, id |-> 0, file |-> PdfA, loading |-> FALSE, numPages |-> 0,
             config |-> <<>>, shared |-> {}, task |-> FALSE, owner |-> 0, switches |-> 0,
             crashed |-> FALSE, before |-> <<>>]
DefaultPageConfigTilted == [selected |-> TRUE, rotation |-> 45]
DefaultPageConfig == [selected |-> TRUE, rotation |-> 0]

\* The stored configuration of every document of a list, by id
StoredConfigs(fs) ==
    [d \in DocIds |-> IF \E i \in DOMAIN fs : fs[i].id = d
                      THEN fs[CHOOSE i \in DOMAIN fs : fs[i].id = d].pageConfig
                      ELSE <<>>]

\* Page-editor operations of one behaviour
Edit == edits < MaxEdits /\ edits' = edits + 1
\* Changes of the modal's file while it is mounted, in one behaviour
MaxSwitches == 1

\* handleEditPages, and the mount of the modal: useState(file.pageConfig || {}).
\* (Sessions after one whose file changed are not followed: their entry objects
\* can be held by the stored configurations of two documents.)
HandleEditPages(k) ==
    /\ ViewReachable
    /\ editor.switches = 0
    /\ k \in DOMAIN files
    /\ files[k].type = "pdf"
    /\ editor' = [open |-> TRUE, id |-> files[k].id, file |-> files[k].file, loading |-> TRUE,
                  numPages |-> 0,
                  config |-> IF files[k].pageConfig = <<>> THEN <<>> ELSE files[k].pageConfig[1],
                  shared |-> ConfigIndices(files[k]),
                  task |-> TRUE, owner |-> files[k].id, switches |-> 0, crashed |-> FALSE,
                  before |-> StoredConfigs(files)]
    /\ UNCHANGED <<files, mergedFileName, isMerging, isProcessing, error, fileNameSourceId,
                   isCompressionEnabled, pending, merge, delivered, fate, edits>>
    /\ UNCHANGED dragVars
    /\ UNCHANGED signVars

\* handleEditPages from the keyboard while the modal is mounted: the overlay
\* takes the pointer events, but the buttons of the list under it keep the
\* focus order (Tab, Enter).  The modal has no key: it is rendered again with
\* the new file and keeps its state (config, numPages, loading); the effect
\* on [file] is cleaned up and runs again.
HandleEditPagesInModal(k) ==
    /\ editor.open
    /\ ~editor.crashed
    /\ editor.switches < MaxSwitches
    /\ k \in DOMAIN files
    /\ files[k].type = "pdf"
    /\ files[k].id # editor.id
    /\ editor' = [editor EXCEPT !.id = files[k].id, !.file = files[k].file, !.task = TRUE,
                                !.switches = @ + 1]
    /\ UNCHANGED <<files, mergedFileName, isMerging, isProcessing, error, fileNameSourceId,
                   isCompressionEnabled, pending, merge, delivered, fate, edits>>
    /\ UNCHANGED dragVars
    /\ UNCHANGED signVars

\* loadPdf: pdfjs opens the document (it can fail on bytes pdf-lib accepts: its
\* worker is fetched from a CDN), numPages is set, the configuration is filled
\* when it was empty, the thumbnails are drawn and loading ends.
LoadPdf(opened) ==
    /\ editor.open
    /\ editor.task
    /\ ~editor.crashed
    /\ IF opened /\ Loadable(editor.file)
       THEN LET n == Len(editor.file.pages)
                newConfig == [i \in 0..(n - 1) |->
                                IF i \in DOMAIN editor.config THEN editor.config[i]
                                ELSE DefaultPageConfig]
                configChanged == \E i \in 0..(n - 1) : i \notin DOMAIN editor.config
            IN  editor' = [editor EXCEPT
                             !.numPages = n,
                             !.loading = FALSE,
                             !.task = FALSE,
                             !.config = IF configChanged /\ DOMAIN editor.config = {}
                                        THEN newConfig ELSE @]
       ELSE editor' = [editor EXCEPT !.loading = FALSE, !.task = FALSE]
    /\ UNCHANGED <<files, mergedFileName, isMerging, isProcessing, error, fileNameSourceId,
                   isCompressionEnabled, pending, merge, delivered, fate, edits>>
    /\ UNCHANGED dragVars
    /\ UNCHANGED signVars

\* The page tiles and the two buttons exist once loading is over.
EditorReady == editor.open /\ ~editor.loading /\ ~editor.crashed

\* What a call of an updater gives: the next configuration, or the TypeError
\* of reading a property of prev[index] when there is no entry for index.
Returns(config) == [threw |-> FALSE, config |-> config]
TypeError == [threw |-> TRUE, config |-> <<>>]

\* prev => ({...prev, [index]: {...prev[index], selected: !prev[index].selected}})
ToggledConfig(prev, index) ==
    IF index \notin DOMAIN prev THEN TypeError
    ELSE Returns([prev EXCEPT ![index] = [@ EXCEPT !.selected = ~prev[index].selected]])

\* an updater that adds the quarter turn without reducing the sum
RotatedConfigUnreduced(prev, index) ==
    IF index \notin DOMAIN prev THEN TypeError
    ELSE Returns([prev EXCEPT ![index] = [@ EXCEPT !.rotation = prev[index].rotation + 90]])

\* prev => ({...prev, [index]: {...prev[index], rotation: (prev[index].rotation + 90) % 360}})
RotatedConfig(prev, index) ==
    IF index \notin DOMAIN prev THEN TypeError
    ELSE Returns([prev EXCEPT ![index] =
                    [@ EXCEPT !.rotation = (prev[index].rotation + 90) % 360]])

\* setConfig(updater) from a page tile: React runs the updater while it renders;
\* when the updater throws, the render throws and the tree is unmounted.
SetConfig(next, index) ==
    /\ EditorReady
    /\ index \in 0..(editor.numPages - 1)
    /\ editor' = IF next.threw THEN [editor EXCEPT !.crashed = TRUE]
                 ELSE [editor EXCEPT !.config = next.config, !.shared = @ \ {index}]
    /\ UNCHANGED <<files, mergedFileName, isMerging, isProcessing, error, fileNameSourceId,
                   isCompressionEnabled, pending, merge, delivered, fate>>
    /\ UNCHANGED dragVars
    /\ UNCHANGED signVars

\* toggleSelection: a new entry object for `index`
ToggleSelection(index) == SetConfig(ToggledConfig(editor.config, index), index)

\* rotatePage: a new entry object for `index`
RotatePage(index) == SetConfig(RotatedConfig(editor.config, index), index)

\* newConfig[i].selected = value, written into the entry objects themselves:
\* every holder of the same object sees the write.
WriteSelected(c, indices, value) ==
    [i \in DOMAIN c |-> IF i \in indices THEN [c[i] EXCEPT !.selected = value] ELSE c[i]]

WriteSelectedInList(fs, id, indices, value) ==
    [k \in DOMAIN fs |->
        IF fs[k].id = id /\ fs[k].pageConfig # <<>>
        THEN [fs[k] EXCEPT !.pageConfig = <<WriteSelected(@[1], indices, value)>>]
        ELSE fs[k]]

\* const newConfig = { ...config }; for (let i = 0; i < numPages; i++)
\* newConfig[i].selected = value: the loop writes until it reaches an index
\* without an entry, where the assignment throws a TypeError.
AllSelected(config, numPages, value) ==
    LET absent == {i \in 0..(numPages - 1) : i \notin DOMAIN config}
        written == {i \in 0..(numPages - 1) : \A j \in absent : i < j}
    IN  [config |-> WriteSelected(config, written, value),
         written |-> written,
         threw |-> absent # {}]

\* selectAll (value TRUE) and deselectAll (value FALSE); a throw leaves the
\* handler before setConfig, with the writes done.  (With numPages = 0 the
\* handler changes nothing.)
SetAllSelected(value) ==
    /\ EditorReady
    /\ editor.numPages > 0
    /\ LET r == AllSelected(editor.config, editor.numPages, value)
           held == editor.shared \cap r.written
       IN  /\ editor' = [editor EXCEPT !.config = r.config]
           /\ files' = WriteSelectedInList(files, editor.owner, held, value)
           /\ merge' = [merge EXCEPT !.files = WriteSelectedInList(@, editor.owner,
                                          held \cap merge.shared[editor.owner], value)]
    /\ UNCHANGED <<mergedFileName, isMerging, isProcessing, error, fileNameSourceId,
                   isCompressionEnabled, pending, delivered, fate>>
    /\ UNCHANGED dragVars
    /\ UNCHANGED signVars

SelectAll == SetAllSelected(TRUE)
DeselectAll == SetAllSelected(FALSE)

\* onSave -> handleSavePageConfig: the list's AppFile is replaced by a copy that
\* holds the editor's configuration object.
HandleSavePageConfig ==
    /\ editor.open
    /\ ~editor.loading
    /\ ~editor.crashed
    /\ files' = [k \in DOMAIN files |->
                   IF files[k].id = editor.id
                   THEN [files[k] EXCEPT !.pageConfig = <<editor.config>>]
                   ELSE files[k]]
    /\ merge' = [merge EXCEPT !.shared[editor.id] =
                                 IF editor.owner = editor.id THEN @ \cap editor.shared ELSE {}]
    /\ editor' = [NoEditor EXCEPT !.switches = editor.switches]
    /\ UNCHANGED <<mergedFileName, isMerging, isProcessing, error, fileNameSourceId,
                   isCompressionEnabled, pending, delivered, fate, edits>>
    /\ UNCHANGED dragVars
    /\ UNCHANGED signVars

\* onClose -> handleClosePageEditor
HandleClosePageEditor ==
    /\ editor.open
    /\ ~editor.crashed
    /\ editor' = [NoEditor EXCEPT !.switches = editor.switches]
    /\ UNCHANGED <<files, mergedFileName, isMerging, isProcessing, error, fileNameSourceId,
                   isCompressionEnabled, pending, merge, delivered, fate, edits>>
    /\ UNCHANGED dragVars
    /\ UNCHANGED signVars

\* ==================================================================== SignMode
\* Numbers of the stamping geometry are rationals <<numerator, denominator>>,
\* in lowest terms with a positive denominator (the rounding of JavaScript's
\* doubles is not modelled).
\* (Each operand is bound to its value once, x \in {a}, before it is used.)
RECURSIVE GCD(_, _)
GCD(a, b) == CHOOSE g \in {IF y = 0 THEN x ELSE GCD(y, x % y) : x \in {a}, y \in {b}} : TRUE
Abs(n) == IF n < 0 THEN -n ELSE n
Frac(n, d) ==
    CHOOSE f \in {<<(sgn * x) \div g, (sgn * y) \div g>> :
                    x \in {n}, y \in {d}, g \in {GCD(Abs(n), Abs(d))},
                    sgn \in {IF d < 0 THEN -1 ELSE 1}} : TRUE
Whole(n) == <<n, 1>>
Add(a, b) == CHOOSE f \in {Frac(x[1] * y[2] + y[1] * x[2], x[2] * y[2]) : x \in {a}, y \in {b}} : TRUE
Sub(a, b) == CHOOSE f \in {Frac(x[1] * y[2] - y[1] * x[2], x[2] * y[2]) : x \in {a}, y \in {b}} : TRUE
Mul(a, b) == CHOOSE f \in {Frac(x[1] * y[1], x[2] * y[2]) : x \in {a}, y \in {b}} : TRUE
Div(a, b) == CHOOSE f \in {Frac(x[1] * y[2], x[2] * y[1]) : x \in {a}, y \in {b}} : TRUE
Less(a, b) == a[1] * b[2] < b[1] * a[2]
Floor(a) == a[1] \div a[2]
Half(a) == Div(a, Whole(2))

Size(w, h) == [width |-> w, height |-> h]

\* The files a user hands to the stamping view: `sizes` are the page sizes of
\* the document the bytes hold, in points.
DocP == [name |-> <<"p">> \o DotPdf, type |-> MimePdf,
         sizes |-> <<Size(Whole(400), Whole(600))>>]
DocQ == [name |-> <<"q">> \o DotPdf, type |-> MimePdf,
         sizes |-> <<Size(Whole(800), Whole(600)), Size(Whole(400), Whole(600))>>]
NoteT == [name |-> <<"t", ".", "t", "x", "t">>, type |-> MimeText, sizes |-> <<>>]
SignUserFiles == {DocP, DocQ, NoteT}
\* A document whose page tree is empty
DocZ == [name |-> <<"z">> \o DotPdf, type |-> MimePdf, sizes |-> <<>>]
\* The target documents of the stamping batches
StampUserFiles == {DocP, DocQ, DocZ}

\* Pdfs the list of the stamping view can hold in the model.
MaxPdfs == 2
\* Gestures of the user on the stamping view in one behaviour.
MaxGestures == 6
Gesture == gestures < MaxGestures /\ gestures' = gestures + 1
SignFileLists == UNION {[1..n -> SignUserFiles] : n \in 1..MaxPdfs}
StampFileLists == UNION {[1..n -> StampUserFiles] : n \in 1..MaxPdfs}

\* Signature images: the natural size of the decoded image, in pixels.
SigInk == [name |-> <<"s", ".", "p", "n", "g">>, type |-> MimePng,
           natural |-> Size(Whole(1000), Whole(500))]
SigGif == [name |-> <<"g", ".", "g", "i", "f">>, type |-> "image/gif",
           natural |-> Size(Whole(100), Whole(100))]
SignatureFiles == {SigInk, SigGif}

ErrOnlyPdf == "Por favor, sube solo archivos PDF para firmar"
ErrSignatureType == "La firma debe ser una imagen JPG o PNG"
ErrSigning == "Ocurrio un error al firmar los documentos"

\* <input type="range" min="0.05" max="0.8" step="0.05">: the values tried
SliderValues == {Frac(1, 5), Frac(4, 5)}
\* Where the pointer is over the canvas, as fractions of its bounding rect
PointerFractions == {Frac(1, 2), Whole(1)}

InitialScale == Frac(1, 5)
InitialDragPos == 50
DefaultVisualWidth == 150
\* containerRef.current?.clientWidth || 400: the container is 400 px wide
ContainerWidth == 400
\* A canvas element before anything sets its width and height
FreshCanvas == Size(Whole(300), Whole(150))
Padding == 20

\* The canvas, the signature image and the drag handle are rendered when
\* useVisualPlacement && pdfs.length > 0 && signatureUrl.
PreviewMounted(ps, sig, visual) == visual /\ ps # <<>> /\ sig # <<>>

\* The commit of a render in which the list, the signature and the mode are
\* ps, sig and visual: the canvas is mounted or unmounted, and when pdfs or
\* useVisualPlacement changed the preview effect is cleaned up and run again.
Commit(ps, sig, visual, effectRuns) ==
    /\ canvas' = IF ~PreviewMounted(ps, sig, visual) THEN <<>>
                 ELSE IF canvas = <<>> THEN FreshCanvas ELSE canvas
    /\ preview' = IF ~effectRuns THEN preview
                  ELSE IF PreviewMounted(ps, sig, visual) THEN {ps[1].file} ELSE {}

IsPdfFile(f) == f.type = MimePdf \/ EndsWith(ToLowerCase(f.name), DotPdf)

\* handlePdfUpload, from the file input or the drop zone
HandlePdfUpload(newFiles) ==
    LET validPdfs == SelectSeq(newFiles, IsPdfFile)
        signFiles == [i \in DOMAIN validPdfs |-> [file |-> validPdfs[i]]]
    IN  /\ Len(pdfs) + Len(validPdfs) <= MaxPdfs
        /\ IF Len(validPdfs) = 0 /\ Len(newFiles) > 0
           THEN /\ signError' = ErrOnlyPdf
                /\ UNCHANGED <<pdfs, canvas, preview>>
           ELSE /\ pdfs' = pdfs \o signFiles
                /\ signError' = NoError
                /\ Commit(pdfs \o signFiles, signatureImage, useVisualPlacement, TRUE)
        /\ UNCHANGED <<signatureImage, sigImageDims, isSigning, useVisualPlacement, position,
                       pagesToSign, signatureScale, pdfPageDimensions, canvasDims, dragPos,
                       isDragging, imgLoading, signing>>
        /\ stamped' = <<>>
    /\ Gesture
    /\ UNCHANGED mergeVars

\* handleSignatureUpload; the uploader is rendered while there is no signature
HandleSignatureUpload(file) ==
    /\ signatureImage = <<>>
    /\ IF file.type = MimeJpeg \/ file.type = MimePng
       THEN /\ signatureImage' = <<file>>
            /\ imgLoading' = imgLoading \cup {file}
            /\ signError' = NoError
            /\ Commit(pdfs, <<file>>, useVisualPlacement, FALSE)
       ELSE /\ signError' = ErrSignatureType
            /\ UNCHANGED <<signatureImage, imgLoading, canvas, preview>>
    /\ UNCHANGED <<pdfs, sigImageDims, isSigning, useVisualPlacement, position, pagesToSign,
                   signatureScale, pdfPageDimensions, canvasDims, dragPos, isDragging,
                   signing>>
    /\ stamped' = <<>>
    /\ Gesture
    /\ UNCHANGED mergeVars

\* img.onload of an Image created by handleSignatureUpload
SignatureLoads(file) ==
    /\ file \in imgLoading
    /\ imgLoading' = imgLoading \ {file}
    /\ sigImageDims' = <<file.natural>>
    /\ UNCHANGED <<pdfs, signatureImage, signError, isSigning, useVisualPlacement, position,
                   pagesToSign, signatureScale, pdfPageDimensions, canvasDims, dragPos,
                   isDragging, canvas, preview, signing>>
    /\ stamped' = <<>>
    /\ UNCHANGED gestures
    /\ UNCHANGED mergeVars

\* removePdf, from the button of the k-th element of the list
RemovePdf(k) ==
    /\ k \in DOMAIN pdfs
    /\ LET rest == [i \in 1..(Len(pdfs) - 1) |-> IF i < k THEN pdfs[i] ELSE pdfs[i + 1]]
       IN  /\ pdfs' = rest
           /\ Commit(rest, signatureImage, useVisualPlacement, TRUE)
    /\ UNCHANGED <<signatureImage, sigImageDims, signError, isSigning, useVisualPlacement,
                   position, pagesToSign, signatureScale, pdfPageDimensions, canvasDims,
                   dragPos, isDragging, imgLoading, signing>>
    /\ stamped' = <<>>
    /\ Gesture
    /\ UNCHANGED mergeVars

\* clearSignature, from its button
ClearSignature ==
    /\ signatureImage # <<>>
    /\ signatureImage' = <<>>
    /\ sigImageDims' = <<>>
    /\ Commit(pdfs, <<>>, useVisualPlacement, FALSE)
    /\ UNCHANGED <<pdfs, signError, isSigning, useVisualPlacement, position, pagesToSign,
                   signatureScale, pdfPageDimensions, canvasDims, dragPos, isDragging,
                   imgLoading, signing>>
    /\ stamped' = <<>>
    /\ Gesture
    /\ UNCHANGED mergeVars

\* renderPage of the preview effect, from getPage's return to the end: the
\* reference page is the first page of the first pdf of the effect's render
\* (getPage(1) rejects when the document has no page).
RenderPage(file, opened) ==
    /\ file \in preview
    /\ opened => file.sizes # <<>>
    /\ preview' = preview \ {file}
    /\ IF opened
       THEN LET unscaled == file.sizes[1]
                scale == Div(Whole(ContainerWidth), unscaled.width)
                viewport == Size(Mul(unscaled.width, scale), Mul(unscaled.height, scale))
            IN  /\ pdfPageDimensions' = <<unscaled>>
                /\ IF canvas # <<>>
                   THEN /\ canvas' = Size(Whole(Floor(viewport.width)), Whole(Floor(viewport.height)))
                        /\ canvasDims' = <<viewport>>
                   ELSE UNCHANGED <<canvas, canvasDims>>
       ELSE UNCHANGED <<pdfPageDimensions, canvas, canvasDims>>
    /\ UNCHANGED <<pdfs, signatureImage, sigImageDims, signError, isSigning, useVisualPlacement,
                   position, pagesToSign, signatureScale, dragPos, isDragging, imgLoading,
                   signing>>
    /\ stamped' = <<>>
    /\ UNCHANGED gestures
    /\ UNCHANGED mergeVars

\* const visualWidth = ...
VisualWidth ==
    IF sigImageDims # <<>> /\ pdfPageDimensions # <<>> /\ canvasDims # <<>>
    THEN Mul(Mul(sigImageDims[1].width, signatureScale),
             Div(canvasDims[1].width, pdfPageDimensions[1].width))
    ELSE Whole(DefaultVisualWidth)

\* const visualHeight = visualWidth * (sigImageDims.height / sigImageDims.width)
VisualHeight == Mul(VisualWidth, Div(sigImageDims[1].height, sigImageDims[1].width))

\* handleMouseDown on the drag handle, handleMouseUp on the container
HandleMouseDown ==
    /\ canvas # <<>>
    /\ ~isDragging
    /\ isDragging' = TRUE
    /\ UNCHANGED <<pdfs, signatureImage, sigImageDims, signError, isSigning, useVisualPlacement,
                   position, pagesToSign, signatureScale, pdfPageDimensions, canvasDims, dragPos,
                   canvas, preview, imgLoading, signing>>
    /\ stamped' = <<>>
    /\ Gesture
    /\ UNCHANGED mergeVars

HandleMouseUp ==
    /\ canvas # <<>>
    /\ isDragging
    /\ isDragging' = FALSE
    /\ UNCHANGED <<pdfs, signatureImage, sigImageDims, signError, isSigning, useVisualPlacement,
                   position, pagesToSign, signatureScale, pdfPageDimensions, canvasDims, dragPos,
                   canvas, preview, imgLoading, signing>>
    /\ stamped' = <<>>
    /\ Gesture
    /\ UNCHANGED mergeVars

\* The four `if`s of the bounds validation, in their order.
Clamped(pointer, rect, vw, vh) ==
    LET x0 == Sub(pointer.x, Half(vw))
        y0 == Sub(pointer.y, Half(vh))
        x1 == IF Less(x0, Whole(0)) THEN Whole(0) ELSE x0
        y1 == IF Less(y0, Whole(0)) THEN Whole(0) ELSE y0
        x2 == IF Less(rect.width, Add(x1, vw)) THEN Sub(rect.width, vw) ELSE x1
        y2 == IF Less(rect.height, Add(y1, vh)) THEN Sub(rect.height, vh) ELSE y1
    IN  [x |-> x2, y |-> y2]

\* handleMouseMove, the pointer at (fx, fy) of the canvas's bounding rect
HandleMouseMove(fx, fy) ==
    /\ canvas # <<>>
    /\ isDragging
    /\ sigImageDims # <<>>
    /\ LET rect == canvas
           pointer == [x |-> Mul(fx, rect.width), y |-> Mul(fy, rect.height)]
       IN  dragPos' = Clamped(pointer, rect, VisualWidth, VisualHeight)
    /\ UNCHANGED <<pdfs, signatureImage, sigImageDims, signError, isSigning, useVisualPlacement,
                   position, pagesToSign, signatureScale, pdfPageDimensions, canvasDims,
                   isDragging, canvas, preview, imgLoading, signing>>
    /\ stamped' = <<>>
    /\ Gesture
    /\ UNCHANGED mergeVars

\* onChange of the size slider
SetSignatureScale(value) ==
    /\ value # signatureScale
    /\ signatureScale' = value
    /\ UNCHANGED <<pdfs, signatureImage, sigImageDims, signError, isSigning, useVisualPlacement,
                   position, pagesToSign, pdfPageDimensions, canvasDims, dragPos, isDragging,
                   canvas, preview, imgLoading, signing>>
    /\ stamped' = <<>>
    /\ Gesture
    /\ UNCHANGED mergeVars

\* onChange of the select of the pages to sign
SetPagesToSign(value) ==
    /\ value # pagesToSign
    /\ pagesToSign' = value
    /\ UNCHANGED <<pdfs, signatureImage, sigImageDims, signError, isSigning, useVisualPlacement,
                   position, signatureScale, pdfPageDimensions, canvasDims, dragPos, isDragging,
                   canvas, preview, imgLoading, signing>>
    /\ stamped' = <<>>
    /\ Gesture
    /\ UNCHANGED mergeVars

\* onChange of the radio buttons of the position mode
SetUseVisualPlacement(value) ==
    /\ value # useVisualPlacement
    /\ useVisualPlacement' = value
    /\ Commit(pdfs, signatureImage, value, TRUE)
    /\ UNCHANGED <<pdfs, signatureImage, sigImageDims, signError, isSigning, position,
                   pagesToSign, signatureScale, pdfPageDimensions, canvasDims, dragPos,
                   isDragging, imgLoading, signing>>
    /\ stamped' = <<>>
    /\ Gesture
    /\ UNCHANGED mergeVars

\* onClick of a corner button, rendered while !useVisualPlacement
SetPosition(value) ==
    /\ ~useVisualPlacement
    /\ value # position
    /\ position' = value
    /\ UNCHANGED <<pdfs, signatureImage, sigImageDims, signError, isSigning, useVisualPlacement,
                   pagesToSign, signatureScale, pdfPageDimensions, canvasDims, dragPos,
                   isDragging, canvas, preview, imgLoading, signing>>
    /\ stamped' = <<>>
    /\ Gesture
    /\ UNCHANGED mergeVars

\* ------------------------------------------------------------------ handleSign
\* a rule LAST that takes pages[0]
PagesToProcessLastAsFirst(pagesToSign0, n) ==
    IF pagesToSign0 = "ALL" THEN [i \in 1..n |-> i]
    ELSE IF n > 0 THEN <<1>>
    ELSE <<>>

\* pagesToProcess, as the 1-based indices of the pages
PagesToProcess(pagesToSign0, n) ==
    IF pagesToSign0 = "ALL" THEN [i \in 1..n |-> i]
    ELSE IF pagesToSign0 = "FIRST" /\ n > 0 THEN <<1>>
    ELSE IF pagesToSign0 = "LAST" /\ n > 0 THEN <<n>>
    ELSE <<>>

\* y of the placement measured from the top edge, as on the canvas
VisualPlacementTopOrigin(dragPos0, canvasDims0, width, height, signatureDims) ==
    [x |-> Mul(Div(dragPos0.x, canvasDims0.width), width),
     y |-> Mul(Div(dragPos0.y, canvasDims0.height), height)]

\* the drag position taken as page coordinates, without the preview's scale
VisualPlacementUnscaled(dragPos0, canvasDims0, width, height, signatureDims) ==
    [x |-> dragPos0.x,
     y |-> Sub(Sub(height, dragPos0.y), signatureDims.height)]

\* if (useVisualPlacement && canvasDims) { ... }
VisualPlacement(dragPos0, canvasDims0, width, height, signatureDims) ==
    LET rectPercentageX == Div(dragPos0.x, canvasDims0.width)
        rectPercentageY == Div(dragPos0.y, canvasDims0.height)
    IN  [x |-> Mul(rectPercentageX, width),
         y |-> Sub(Sub(height, Mul(rectPercentageY, height)), signatureDims.height)]

\* corners whose y is measured from the top edge, as on the canvas
CornerPlacementTopOrigin(position0, width, height, signatureDims) ==
    LET pad == Whole(Padding)
        right == Sub(Sub(width, signatureDims.width), pad)
        bottom == Sub(Sub(height, signatureDims.height), pad)
    IN  IF position0 = "TL" THEN [x |-> pad, y |-> pad]
        ELSE IF position0 = "TR" THEN [x |-> right, y |-> pad]
        ELSE IF position0 = "BL" THEN [x |-> pad, y |-> bottom]
        ELSE [x |-> right, y |-> bottom]

\* else { if (position === 'TL') ... }
CornerPlacement(position0, width, height, signatureDims) ==
    LET pad == Whole(Padding)
        left == pad
        right == Sub(Sub(width, signatureDims.width), pad)
        top == Sub(Sub(height, signatureDims.height), pad)
        bottom == pad
    IN  IF position0 = "TL" THEN [x |-> left, y |-> top]
        ELSE IF position0 = "TR" THEN [x |-> right, y |-> top]
        ELSE IF position0 = "BL" THEN [x |-> left, y |-> bottom]
        ELSE [x |-> right, y |-> bottom]

\* The body of pagesToProcess.forEach for one page: the drawImage call.
DrawImage(by, pageSize) ==
    LET signatureDims == Size(Mul(by.signatureImage.natural.width, by.signatureScale),
                              Mul(by.signatureImage.natural.height, by.signatureScale))
        at == IF by.useVisualPlacement /\ by.canvasDims # <<>>
              THEN VisualPlacement(by.dragPos, by.canvasDims[1], pageSize.width,
                                   pageSize.height, signatureDims)
              ELSE CornerPlacement(by.position, pageSize.width, pageSize.height, signatureDims)
    IN  [x |-> at.x, y |-> at.y, width |-> signatureDims.width, height |-> signatureDims.height]

FirmadoSuffix == <<"_", "f", "i", "r", "m", "a", "d", "o">> \o DotPdf
ZipName == <<"d", "o", "c", "u", "m", "e", "n", "t", "o", "s", "_",
             "f", "i", "r", "m", "a", "d", "o", "s", ".", "z", "i", "p">>

\* One turn of the loop over pdfs: the signed document pushed to signedPdfs,
\* with the image drawn on each of its processed pages.
SignedPdf(by, pdfItem) ==
    LET sizes == pdfItem.file.sizes
        pages == PagesToProcess(by.pagesToSign, Len(sizes))
    IN  [name |-> ReplaceExtension(pdfItem.file.name, <<>>) \o FirmadoSuffix,
         drawn |-> [k \in DOMAIN pages |->
                      [page |-> pages[k], size |-> sizes[pages[k]],
                       image |-> DrawImage(by, sizes[pages[k]])]]]

\* The for loop of handleSign before its first turn: `k` the document of the
\* current turn, `phase` the await it is suspended at ("read": arrayBuffer,
\* load and embed; "save": pdfDoc.save), signedPdfs as pushed so far (`log`:
\* the loads and saves that have returned, in their order, kept for the
\* verification).
NoLoop == [k |-> 1, phase |-> "read", signedPdfs |-> <<>>, log |-> <<>>]

\* onClick of the sign button, disabled while pdfs is empty, there is no
\* signature or isSigning: the call runs to its first await, holding the state
\* of the render of the click (`seen`: what the preview showed at the click,
\* kept for the verification).
HandleSign ==
    /\ pdfs # <<>>
    /\ signatureImage # <<>>
    /\ ~isSigning
    /\ isSigning' = TRUE
    /\ signError' = NoError
    /\ signing' = <<[pdfs |-> pdfs, signatureImage |-> signatureImage[1],
                     signatureScale |-> signatureScale, pagesToSign |-> pagesToSign,
                     useVisualPlacement |-> useVisualPlacement, canvasDims |-> canvasDims,
                     dragPos |-> dragPos, position |-> position, loop |-> NoLoop,
                     seen |-> [sigImageDims |-> sigImageDims,
                               pdfPageDimensions |-> pdfPageDimensions,
                               footprint |-> IF sigImageDims = <<>> THEN <<>>
                                             ELSE <<Size(VisualWidth, VisualHeight)>>]]>>
    /\ UNCHANGED <<pdfs, signatureImage, sigImageDims, useVisualPlacement, position,
                   pagesToSign, signatureScale, pdfPageDimensions, canvasDims, dragPos,
                   isDragging, canvas, preview, imgLoading>>
    /\ stamped' = <<>>
    /\ Gesture
    /\ UNCHANGED mergeVars

\* zip.file(name, blob): the archive's entries are keyed by name, so a name
\* already in the archive keeps its place and gets the new content.
ZipFile(entries, sp) ==
    IF \E i \in DOMAIN entries : entries[i].name = sp.name
    THEN [i \in DOMAIN entries |-> IF entries[i].name = sp.name THEN sp ELSE entries[i]]
    ELSE Append(entries, sp)

\* signedPdfs.forEach(sp => zip.file(sp.name, sp.blob)) on a new JSZip
RECURSIVE ZipEntries(_)
ZipEntries(signedPdfs) ==
    IF signedPdfs = <<>> THEN <<>>
    ELSE ZipFile(ZipEntries(SubSeq(signedPdfs, 1, Len(signedPdfs) - 1)),
                 signedPdfs[Len(signedPdfs)])

\* What the loop over pdfs has pushed to signedPdfs when the try block is
\* left: every document, or those before the one whose read, load, embed or
\* save throws (failsAt, 0 when none does).
SignedPdfs(by, failsAt) ==
    LET n == IF failsAt = 0 THEN Len(by.pdfs) ELSE failsAt - 1
    IN  [k \in 1..n |-> SignedPdf(by, by.pdfs[k])]

\* A throw leaves the try block for the catch and hands over whatever
\* signedPdfs holds.
DownloadedDespiteThrow(signedPdfs, threw) ==
    IF signedPdfs = <<>> THEN <<>>
    ELSE IF Len(signedPdfs) = 1
    THEN <<[kind |-> "pdf", name |-> signedPdfs[1].name, entries |-> <<>>]>>
    ELSE <<[kind |-> "zip", name |-> ZipName, entries |-> ZipEntries(signedPdfs)]>>

\* What link.click() hands to the browser: nothing when the try block threw,
\* else the only signed pdf under its name, or the zip of all of them.
Downloaded(signedPdfs, threw) ==
    IF threw THEN <<>>
    ELSE IF Len(signedPdfs) = 1
    THEN <<[kind |-> "pdf", name |-> signedPdfs[1].name, entries |-> <<>>]>>
    ELSE <<[kind |-> "zip", name |-> ZipName, entries |-> ZipEntries(signedPdfs)]>>

\* UNCHANGED for a step of the loop, which writes no React state
LoopStepFrame ==
    /\ UNCHANGED <<pdfs, signatureImage, sigImageDims, signError, isSigning,
                   useVisualPlacement, position, pagesToSign, signatureScale,
                   pdfPageDimensions, canvasDims, dragPos, isDragging, canvas, preview,
                   imgLoading, stamped, gestures>>
    /\ UNCHANGED mergeVars

\* a loop that goes on to the next document while the save is outstanding
SignLoadsDocumentAhead ==
    /\ signing # <<>>
    /\ signing[1].loop.phase = "read"
    /\ signing[1].loop.k <= Len(signing[1].pdfs)
    /\ signing' = <<[signing[1] EXCEPT
                       !.loop.k = IF @ < Len(signing[1].pdfs) THEN @ + 1 ELSE @,
                       !.loop.phase = IF signing[1].loop.k < Len(signing[1].pdfs)
                                      THEN "read" ELSE "save",
                       !.loop.log = Append(@, [ev |-> "load", k |-> signing[1].loop.k])]>>
    /\ LoopStepFrame

\* A turn of the loop up to the drawing: pdfItem.file.arrayBuffer(),
\* PDFDocument.load and embedPng / embedJpg have returned for document k.
SignLoadsDocument ==
    /\ signing # <<>>
    /\ signing[1].loop.phase = "read"
    /\ signing[1].loop.k <= Len(signing[1].pdfs)
    /\ signing' = <<[signing[1] EXCEPT
                       !.loop.phase = "save",
                       !.loop.log = Append(@, [ev |-> "load", k |-> signing[1].loop.k])]>>
    /\ LoopStepFrame

\* The rest of the turn: the pages are drawn, pdfDoc.save() has returned and
\* the signed document is pushed; the loop goes on to the next document.
SignSavesDocument ==
    /\ signing # <<>>
    /\ signing[1].loop.phase = "save"
    /\ \E by \in {signing[1]}, k \in {signing[1].loop.k} :
           signing' = <<[by EXCEPT
                           !.loop.k = k + 1,
                           !.loop.phase = "read",
                           !.loop.signedPdfs = Append(@, SignedPdf(by, by.pdfs[k])),
                           !.loop.log = Append(@, [ev |-> "save", k |-> k])]>>
    /\ LoopStepFrame

\* The loop is left: after its last turn (failsAt = 0), or by a throw of the
\* await the turn of document failsAt is suspended at.
LoopLeaves(failsAt) ==
    /\ signing # <<>>
    /\ IF failsAt = 0
       THEN signing[1].loop.k > Len(signing[1].pdfs)
       ELSE signing[1].loop.k = failsAt

\* The rest of handleSign: every file is read, stamped and saved, the result
\* is downloaded (one pdf, or a zip of them) and the view is emptied; or the
\* turn of the loop for document failsAt throws and the error is shown.
\* Between the click and here the call reads only what its closure holds.
SignCompletes(failsAt) ==
    /\ signing # <<>>
    /\ failsAt <= Len(signing[1].pdfs)
    /\ \E by \in {signing[1]}, threw \in {failsAt # 0} :
       \E signedPdfs \in {SignedPdfs(by, failsAt)} :
       \E link \in {Downloaded(signedPdfs, threw)} :
           /\ stamped' = [k \in DOMAIN link |->
                            [kind |-> link[k].kind, name |-> link[k].name,
                             entries |-> link[k].entries,
                             signedPdfs |-> signedPdfs, by |-> by]]
           /\ IF threw
              THEN /\ signError' = ErrSigning
                   /\ UNCHANGED <<pdfs, signatureImage, sigImageDims, canvas, preview>>
              ELSE /\ pdfs' = <<>>
                   /\ signatureImage' = <<>>
                   /\ sigImageDims' = <<>>
                   /\ Commit(<<>>, <<>>, useVisualPlacement, TRUE)
                   /\ UNCHANGED signError
    /\ isSigning' = FALSE
    /\ signing' = <<>>
    /\ UNCHANGED <<useVisualPlacement, position, pagesToSign, signatureScale,
                   pdfPageDimensions, canvasDims, dragPos, isDragging, imgLoading>>
    /\ UNCHANGED gestures
    /\ UNCHANGED mergeVars

\* ------------------------------------------------------------ specification
vars == <<mergeVars, signVars>>

\* SignMode after its first render
SignModeInit ==
    /\ pdfs = <<>>
    /\ signatureImage = <<>>
    /\ sigImageDims = <<>>
    /\ signError = NoError
    /\ isSigning = FALSE
    /\ useVisualPlacement = TRUE
    /\ position = "BR"
    /\ pagesToSign = "ALL"
    /\ signatureScale = InitialScale
    /\ pdfPageDimensions = <<>>
    /\ canvasDims = <<>>
    /\ dragPos = [x |-> Whole(InitialDragPos), y |-> Whole(InitialDragPos)]
    /\ isDragging = FALSE
    /\ canvas = <<>>
    /\ preview = {}
    /\ imgLoading = {}
    /\ signing = <<>>
    /\ stamped = <<>>
    /\ gestures = 0

Init ==
    /\ files = <<>>
    /\ mergedFileName = DefaultName
    /\ isMerging = FALSE
    /\ isProcessing = FALSE
    /\ error = NoError
    /\ fileNameSourceId = NoSource
    /\ isCompressionEnabled = TRUE
    /\ editor = NoEditor
    /\ pending = <<>>
    /\ merge = NoMerge
    /\ delivered = NoArtifact
    /\ fate = [d \in DocIds |-> "none"]
    /\ edits = 0
    /\ draggedItem = NoIndex
    /\ dragOverItem = NoIndex
    /\ dragging = NoDrag
    /\ SignModeInit

\* The batch orchestrator: ingestion, removal and merge, with every
\* interleaving of the suspended calls.
Next ==
    \/ \E fl \in FileLists : HandleFileChange(fl)
    \/ \E fl \in FileLists : HandleDrop(fl)
    \/ \E k \in 1..MaxDocs, i \in 1..MaxBatch : TaskSettles(k, i)
    \/ \E id \in DocIds : RemoveFile(id)
    \/ \E m \in {"download", "saveAs"} : RunMergeProcess(m)
    \/ MergeLoadsDocument
    \/ MergeSerializes
    \/ \E o \in {"saved", "AbortError", "Error"} : SavePickerReturns(o)

Spec == Init /\ [][Next]_vars

\* The page configuration store and the merge engine: the list holds documents
\* that were ingested before (any list of at most MaxListed normalized user
\* files, as processAndAddFiles leaves it); the user edits page configurations,
\* removes documents and merges.
NormalizedFiles == {Normalize(f, TRUE) : f \in {g \in UserFiles : IsValidFile(g) /\ Normalize(g, TRUE).ok}}
ListedFiles ==
    UNION {{[k \in 1..n |-> [id |-> k, file |-> l[k].file, type |-> l[k].type, pageConfig |-> <<>>]] :
              l \in [1..n -> NormalizedFiles]} : n \in 1..MaxListed}

PageInit ==
    /\ files \in ListedFiles
    /\ mergedFileName = DefaultName
    /\ isMerging = FALSE
    /\ isProcessing = FALSE
    /\ error = NoError
    /\ fileNameSourceId = NoSource
    /\ isCompressionEnabled = TRUE
    /\ editor = NoEditor
    /\ pending = <<>>
    /\ merge = NoMerge
    /\ delivered = NoArtifact
    /\ fate = [d \in DocIds |-> IF d <= Len(files) THEN "listed" ELSE "none"]
    /\ edits = 0
    /\ draggedItem = NoIndex
    /\ dragOverItem = NoIndex
    /\ dragging = NoDrag
    /\ SignModeInit

PageNext ==
    \/ \E k \in 1..MaxDocs : HandleEditPages(k)
    \/ \E k \in 1..MaxDocs : HandleEditPagesInModal(k)
    \/ \E b \in BOOLEAN : LoadPdf(b)
    \/ \E i \in 0..1 : Edit /\ ToggleSelection(i)
    \/ \E i \in 0..1 : Edit /\ RotatePage(i)
    \/ Edit /\ SelectAll
    \/ Edit /\ DeselectAll
    \/ HandleSavePageConfig
    \/ HandleClosePageEditor
    \/ \E id \in DocIds : RemoveFile(id)
    \/ \E m \in {"download", "saveAs"} : RunMergeProcess(m)
    \/ MergeLoadsDocument
    \/ MergeSerializes
    \/ \E o \in {"saved", "AbortError", "Error"} : SavePickerReturns(o)

PageSpec == PageInit /\ [][PageNext]_vars

\* The merge runs: PDFs are listed as they are (one of them cannot be loaded),
\* the output is named after a document, documents are removed, and merges
\* run to the download, to the save picker, or to a throw.
MergeNext ==
    \/ \E fl \in MergeFileLists : HandleFileChange(fl)
    \/ \E id \in DocIds : HandleFileNameSourceChange(id)
    \/ \E id \in DocIds : RemoveFile(id)
    \/ \E m \in {"download", "saveAs"} : RunMergeProcess(m)
    \/ MergeLoadsDocument
    \/ MergeSerializes
    \/ \E o \in {"saved", "AbortError", "Error"} : SavePickerReturns(o)

MergeSpec == Init /\ [][MergeNext]_vars

\* The ingestion runs: files accepted by their declared type or by their
\* suffix only are normalized and listed, documents are removed, and the list
\* is merged.
IngestNext ==
    \/ \E fl \in IngestFileLists : HandleFileChange(fl)
    \/ \E fl \in IngestFileLists : HandleDrop(fl)
    \/ \E k \in 1..MaxDocs, i \in 1..MaxBatch : TaskSettles(k, i)
    \/ \E id \in DocIds : RemoveFile(id)
    \/ RunMergeProcess("download")
    \/ MergeLoadsDocument
    \/ MergeSerializes

IngestSpec == Init /\ [][IngestNext]_vars

\* The list runs: documents are added, removed and reordered by drag, the
\* output is named after a document or by the user, and merges run to the
\* download, to the save picker, or to a throw.
ListNext ==
    \/ \E fl \in ListFileLists : PointerFree /\ HandleFileChange(fl)
    \/ \E k \in 1..MaxDocs, i \in 1..MaxBatch : TaskSettles(k, i)
    \/ \E id \in DocIds : PointerFree /\ RemoveFile(id)
    \/ \E i \in 0..(MaxDocs - 1) : DragStart(i)
    \/ \E i \in 0..(MaxDocs - 1) : DragEnter(i)
    \/ HandleSort
    \/ \E id \in DocIds : PointerFree /\ HandleFileNameSourceChange(id)
    \/ PointerFree /\ HandleCustomFileNameChange(<<"r">>)
    \/ PointerFree /\ RunMergeProcess("saveAs")
    \/ MergeLoadsDocument
    \/ MergeSerializes
    \/ \E o \in {"saved", "AbortError", "Error"} : SavePickerReturns(o)

ListSpec == Init /\ [][ListNext]_vars

\* The name field, the name-source checkbox and the merge, over the texts the
\* user types; the list is not reordered.
NameNext ==
    \/ \E fl \in ListFileLists : HandleFileChange(fl)
    \/ \E k \in 1..MaxDocs, i \in 1..MaxBatch : TaskSettles(k, i)
    \/ \E id \in DocIds : RemoveFile(id)
    \/ \E id \in DocIds : HandleFileNameSourceChange(id)
    \/ \E value \in NameTexts : HandleCustomFileNameChange(value)
    \/ \E m \in {"download", "saveAs"} : RunMergeProcess(m)
    \/ MergeLoadsDocument
    \/ MergeSerializes
    \/ \E o \in {"saved", "AbortError", "Error"} : SavePickerReturns(o)
NameSpec == Init /\ [][NameNext]_vars

\* The ensure-extension rule over the texts of the name field: one PDF is
\* listed, the name field holds any text of at most MaxNameLen of these keys,
\* and the user merges (the rule runs in every merge that reaches the save
\* step).
MaxNameLen == 5
RuleKeys == {" ", "r", ".", "p", "P", "d", "f"}
RuleTexts == UNION {[1..n -> RuleKeys] : n \in 0..MaxNameLen}
RuleInit ==
    /\ files = <<[id |-> 1, file |-> PdfA, type |-> "pdf", pageConfig |-> <<>>]>>
    /\ mergedFileName \in RuleTexts
    /\ isMerging = FALSE
    /\ isProcessing = FALSE
    /\ error = NoError
    /\ fileNameSourceId = NoSource
    /\ isCompressionEnabled = TRUE
    /\ editor = NoEditor
    /\ pending = <<>>
    /\ merge = NoMerge
    /\ delivered = NoArtifact
    /\ fate = [d \in DocIds |-> IF d <= Len(files) THEN "listed" ELSE "none"]
    /\ edits = 0
    /\ draggedItem = NoIndex
    /\ dragOverItem = NoIndex
    /\ dragging = NoDrag
    /\ SignModeInit
RuleNext ==
    \/ \E m \in {"download", "saveAs"} : RunMergeProcess(m)
    \/ MergeLoadsDocument
    \/ MergeSerializes
    \/ \E o \in {"saved", "AbortError", "Error"} : SavePickerReturns(o)
RuleSpec == RuleInit /\ [][RuleNext]_vars

\* The page configuration store: a list of a one-page document (a converted
\* image) and a two-page document, neither configured yet, and every sequence
\* of editor sessions on them, without a bound on the operations.
StoreInit ==
    /\ PageInit
    /\ Len(files) = 2
    /\ Len(files[1].file.pages) = 1
    /\ Len(files[2].file.pages) = 2
    /\ files[1].type = "pdf"

StoreNext ==
    \/ \E k \in 1..MaxListed : HandleEditPages(k)
    \/ \E k \in 1..MaxListed : HandleEditPagesInModal(k)
    \/ \E b \in BOOLEAN : LoadPdf(b)
    \/ \E i \in 0..1 : ToggleSelection(i) /\ UNCHANGED edits
    \/ \E i \in 0..1 : RotatePage(i) /\ UNCHANGED edits
    \/ SelectAll /\ UNCHANGED edits
    \/ DeselectAll /\ UNCHANGED edits
    \/ HandleClosePageEditor
    \/ HandleSavePageConfig

StoreSpec == StoreInit /\ [][StoreNext]_vars

\* The stamping view: uploads, the preview, the drag of the signature over it,
\* the size slider and the signing, in interactive placement mode.
SignNext ==
    \/ \E fl \in SignFileLists : HandlePdfUpload(fl)
    \/ \E f \in SignatureFiles : HandleSignatureUpload(f)
    \/ \E f \in SignatureFiles : SignatureLoads(f)
    \/ \E k \in 1..MaxPdfs : RemovePdf(k)
    \/ ClearSignature
    \/ \E f \in SignUserFiles, b \in BOOLEAN : RenderPage(f, b)
    \/ HandleMouseDown
    \/ HandleMouseUp
    \/ \E fx \in PointerFractions, fy \in PointerFractions : HandleMouseMove(fx, fy)
    \/ \E v \in SliderValues : SetSignatureScale(v)
    \/ HandleSign
    \/ \E k \in 0..MaxPdfs : SignCompletes(k)

SignSpec == Init /\ [][SignNext]_vars

\* The stamping batches: target documents, the signature, the page rule, the
\* position mode and the corner, then the signing.
StampNext ==
    \/ \E fl \in StampFileLists : HandlePdfUpload(fl)
    \/ \E f \in SignatureFiles : HandleSignatureUpload(f)
    \/ \E f \in SignatureFiles : SignatureLoads(f)
    \/ \E k \in 1..MaxPdfs : RemovePdf(k)
    \/ ClearSignature
    \/ \E f \in StampUserFiles, b \in BOOLEAN : RenderPage(f, b)
    \/ \E v \in {"ALL", "FIRST", "LAST"} : SetPagesToSign(v)
    \/ \E v \in BOOLEAN : SetUseVisualPlacement(v)
    \/ \E v \in {"TL", "TR", "BL", "BR"} : SetPosition(v)
    \/ HandleSign
    \/ \E k \in 0..MaxPdfs : SignCompletes(k)

StampSpec == Init /\ [][StampNext]_vars

\* The stamping loop turn by turn: target documents and the signature are
\* uploaded and removed, the page rule is chosen, and handleSign runs from
\* await to await.
LoopNext ==
    \/ \E fl \in StampFileLists : HandlePdfUpload(fl)
    \/ \E f \in SignatureFiles : HandleSignatureUpload(f)
    \/ \E f \in SignatureFiles : SignatureLoads(f)
    \/ \E k \in 1..MaxPdfs : RemovePdf(k)
    \/ \E v \in {"ALL", "FIRST", "LAST"} : SetPagesToSign(v)
    \/ HandleSign
    \/ SignLoadsDocument
    \/ SignSavesDocument
    \/ \E k \in 0..MaxPdfs : LoopLeaves(k) /\ SignCompletes(k)

LoopSpec == Init /\ [][LoopNext]_vars

\* Every busy flag: in one behaviour the user works in one of the two views
\* (the components share no state); each await that is outstanding
\* eventually returns or throws.
MergeViewAtInit ==
    /\ files = <<>>
    /\ pending = <<>>
    /\ ~isProcessing
    /\ error = NoError
    /\ merge = NoMerge
    /\ delivered = NoArtifact
    /\ \A d \in DocIds : fate[d] = "none"
SignViewAtInit ==
    /\ pdfs = <<>>
    /\ signatureImage = <<>>
    /\ imgLoading = {}
    /\ signing = <<>>
    /\ stamped = <<>>
    /\ signError = NoError
LiveFileLists == {<<PngB>>, <<PngBad, PdfA>>, <<PdfX>>, <<TxtD>>}
LiveNext ==
    \/ \E fl \in LiveFileLists : SignViewAtInit /\ HandleFileChange(fl)
    \/ \E fl \in LiveFileLists : SignViewAtInit /\ HandleDrop(fl)
    \/ \E k \in 1..MaxDocs, i \in 1..MaxBatch : TaskSettles(k, i)
    \/ \E m \in {"download", "saveAs"} : RunMergeProcess(m)
    \/ MergeLoadsDocument
    \/ MergeSerializes
    \/ \E o \in {"saved", "AbortError", "Error"} : SavePickerReturns(o)
    \/ \E fl \in StampFileLists : MergeViewAtInit /\ HandlePdfUpload(fl)
    \/ \E f \in SignatureFiles : MergeViewAtInit /\ HandleSignatureUpload(f)
    \/ \E f \in SignatureFiles : SignatureLoads(f)
    \/ HandleSign
    \/ SignLoadsDocument
    \/ SignSavesDocument
    \/ \E k \in 0..MaxPdfs : LoopLeaves(k) /\ SignCompletes(k)

\* The await a normalization batch, a merge or a stamping run is suspended at
\* settles.
BatchAwaitSettles == \E k \in 1..MaxDocs, i \in 1..MaxBatch : TaskSettles(k, i)
MergeAwaitSettles ==
    \/ MergeLoadsDocument
    \/ MergeSerializes
    \/ \E o \in {"saved", "AbortError", "Error"} : SavePickerReturns(o)
SignAwaitSettles ==
    \/ SignLoadsDocument
    \/ SignSavesDocument
    \/ \E k \in 0..MaxPdfs : LoopLeaves(k) /\ SignCompletes(k)

LiveSpec ==
    /\ Init
    /\ [][LiveNext]_vars
    /\ WF_vars(BatchAwaitSettles)
    /\ WF_vars(MergeAwaitSettles)
    /\ WF_vars(SignAwaitSettles)

\* ===================================================================== claims
\* The configuration the store resolves for page `index` of a document: its
\* entry, or the default when it has none.
ResolvedConfig(appFile, index) ==
    IF appFile.pageConfig # <<>> /\ index \in DOMAIN appFile.pageConfig[1]
    THEN appFile.pageConfig[1][index]
    ELSE DefaultPageConfig

PageIndices(appFile) == 0..(Len(appFile.file.pages) - 1)
SelectedIndices(appFile) == {i \in PageIndices(appFile) : ResolvedConfig(appFile, i).selected}

\* The selected pages of one document, in ascending index order.
SelectedPagesOf(appFile) ==
    LET all == [k \in 1..Len(appFile.file.pages) |-> [doc |-> appFile.id, index |-> k - 1]]
    IN  SelectSeq(all, LAMBDA p : p.index \in SelectedIndices(appFile))

\* The concatenation, in list order, of the selected pages of the documents.
ExpectedPages(docs) ==
    LET acc[k \in 0..Len(docs)] == IF k = 0 THEN <<>> ELSE acc[k - 1] \o SelectedPagesOf(docs[k])
    IN  acc[Len(docs)]

SelectedCount(docs) ==
    LET n[k \in 0..Len(docs)] ==
          IF k = 0 THEN 0 ELSE n[k - 1] + Cardinality(SelectedIndices(docs[k]))
    IN  n[Len(docs)]

PageIds(pages) == [k \in DOMAIN pages |-> [doc |-> pages[k].doc, index |-> pages[k].index]]

\* The document with page `index` deselected and every other page as it was.
Deselect(appFile, index) ==
    [appFile EXCEPT !.pageConfig =
        <<[j \in PageIndices(appFile) |->
             IF j = index THEN [ResolvedConfig(appFile, j) EXCEPT !.selected = FALSE]
             ELSE ResolvedConfig(appFile, j)]>>]

MergeContract(pages, docs) ==
    /\ PageIds(pages) = ExpectedPages(docs)
    /\ Len(pages) = SelectedCount(docs)
    /\ \A j, k \in DOMAIN pages : j # k => PageIds(pages)[j] # PageIds(pages)[k]
    /\ \A d \in DOMAIN docs : \A i \in SelectedIndices(docs[d]) :
          LET with == CopiedPages(docs[d])
              without == CopiedPages(Deselect(docs[d], i))
          IN  /\ Len(without) = Len(with) - 1
              /\ without = SelectSeq(with, LAMBDA p : p.index # i)

\* C1: the pages of the merged output are exactly the selected pages of the
\* documents of the working list as the merge read them, document after
\* document in list order and in ascending index order inside a document; no
\* page appears twice, the page count is the sum of the selected pages, and
\* deselecting one selected page of a document removes exactly that page and
\* keeps the order of the others.  The list the merge walks is the working
\* list of the click, and the delivered artifact is the output of the walk
\* over the whole of it.
C1_SelectedPagesConcatenated ==
    /\ [](/\ MergeContract(merge.out, merge.read)
          /\ \A k \in DOMAIN merge.read : merge.read[k].id = merge.files[k].id
          /\ delivered # NoArtifact => MergeContract(delivered[1].pages, delivered[1].read))
    /\ [][/\ (merge.pc = "idle" /\ merge'.pc # "idle") => merge'.files = files
          /\ delivered' # delivered =>
                /\ delivered'[1].pages = merge.out
                /\ delivered'[1].read = merge.read
                /\ Len(merge.read) = Len(merge.files)]_vars

\* A merge of two documents was delivered, one page of the first deselected:
\* the output holds the other page of the first, then the page of the second.
C1_Witness ==
    /\ delivered # NoArtifact
    /\ Len(delivered[1].read) = 2
    /\ Len(delivered[1].read[1].file.pages) = 2
    /\ Cardinality(SelectedIndices(delivered[1].read[1])) = 1
    /\ Len(delivered[1].pages) = 2
    /\ delivered[1].pages[1].doc = delivered[1].read[1].id
    /\ delivered[1].pages[2].doc = delivered[1].read[2].id

\* The document of the merge walk that page p of the output came from.
SourceOf(docs, p) == docs[CHOOSE d \in DOMAIN docs : docs[d].id = p.doc]
Quadrants == {0, 90, 180, 270}

RotationContract(pages, docs) ==
    \A k \in DOMAIN pages :
        LET src == SourceOf(docs, pages[k])
            intrinsic == src.file.pages[pages[k].index + 1]
        IN  /\ pages[k].rotation = (intrinsic + ResolvedConfig(src, pages[k].index).rotation) % 360
            /\ intrinsic \in Quadrants => pages[k].rotation \in Quadrants

\* C7: every page copied into the merge output carries the rotation
\* (intrinsic rotation + configured rotation) mod 360, one of 0, 90, 180, 270
\* when the intrinsic rotation is.
C7_OutputRotationMod360 ==
    /\ RotationContract(merge.out, merge.read)
    /\ delivered # NoArtifact => RotationContract(delivered[1].pages, delivered[1].read)

\* Every page of the documents, in input order, with its intrinsic rotation.
AllPagesOf(appFile) ==
    [k \in 1..Len(appFile.file.pages) |->
        [doc |-> appFile.id, index |-> k - 1, rotation |-> appFile.file.pages[k]]]
AllPages(docs) ==
    LET acc[k \in 0..Len(docs)] == IF k = 0 THEN <<>> ELSE acc[k - 1] \o AllPagesOf(docs[k])
    IN  acc[Len(docs)]
PageCount(docs) ==
    LET n[k \in 0..Len(docs)] == IF k = 0 THEN 0 ELSE n[k - 1] + Len(docs[k].file.pages)
    IN  n[Len(docs)]
HasEntry(appFile, index) == appFile.pageConfig # <<>> /\ index \in DOMAIN appFile.pageConfig[1]

DefaultContract(pages, docs) ==
    /\ \A d \in DOMAIN docs : \A i \in PageIndices(docs[d]) :
          ~HasEntry(docs[d], i) =>
              \E k \in DOMAIN pages :
                  pages[k] = [doc |-> docs[d].id, index |-> i, rotation |-> docs[d].file.pages[i + 1]]
    /\ (\A d \in DOMAIN docs : \A i \in PageIndices(docs[d]) :
           ResolvedConfig(docs[d], i) = DefaultPageConfig) =>
          /\ pages = AllPages(docs)
          /\ Len(pages) = PageCount(docs)

\* C8: a page with no configuration entry (the document's configuration was
\* never saved, or was saved without an entry for the page) is in the merge
\* output with its intrinsic rotation; documents whose pages all resolve to
\* {selected: true, rotation: 0} merge to all their pages, in input order.
C8_AbsentEntryIsDefault ==
    /\ DefaultContract(merge.out, merge.read)
    /\ delivered # NoArtifact => DefaultContract(delivered[1].pages, delivered[1].read)

\* A merge of two documents was delivered, none of whose pages had an entry:
\* one document never configured, one saved with an empty configuration.
C8_Witness ==
    /\ delivered # NoArtifact
    /\ Len(delivered[1].read) = 2
    /\ \E d \in 1..2 : delivered[1].read[d].pageConfig = <<>>
    /\ \E d \in 1..2 : delivered[1].read[d].pageConfig = << <<>> >>
    /\ Len(delivered[1].pages) = PageCount(delivered[1].read)
    /\ Len(delivered[1].pages) = 3

\* The pending calls without the k-th.
WithoutCall(ps, k) == [n \in 1..(Len(ps) - 1) |-> IF n < k THEN ps[n] ELSE ps[n + 1]]

\* This step ends the k-th pending call, one of whose unfinished tasks is the
\* normalization of a file the converters reject: the call can only have ended
\* by that failure.
BatchFails(k) ==
    /\ pending' = WithoutCall(pending, k)
    /\ \E i \in DOMAIN pending[k].tasks :
          /\ pending[k].tasks[i].state = "pending"
          /\ ~Normalize(pending[k].tasks[i].file, pending[k].tasks[i].compress).ok

\* C2: when the normalization of one file of a batch fails, the step that ends
\* the batch leaves the working list as it was and sets the error message, and
\* no document a task of that batch had produced is ever in the list.
C2_FailedBatchAddsNothing ==
    /\ [][\A k \in DOMAIN pending : BatchFails(k) => (files' = files /\ error' = ErrProcess)]_vars
    /\ [](\A d \in DocIds : fate[d] = "failed" => d \notin Ids(files))

\* A batch was rejected after one of its tasks had produced a document, while
\* the list held a document from before: the list still holds only that one.
C2_Witness ==
    /\ error = ErrProcess
    /\ Len(files) = 1
    /\ fate[files[1].id] = "listed"
    /\ \E d \in DocIds : fate[d] = "failed"
    /\ pending = <<>>

\* C3: a document that was committed to the working list and was neither
\* removed by the user nor part of a completed merge is still in the list.
C3_ListedUntilMergedOrRemoved ==
    \A d \in DocIds : fate[d] = "listed" => d \in Ids(files)

\* The documents a step appended to the list.
Appended == SubSeq(files', Len(files) + 1, Len(files'))

\* The step commits the k-th pending call: the appended documents are the
\* normalizations of the files of the call, position by position.
CommitsCall(k) ==
    /\ pending' = WithoutCall(pending, k)
    /\ Len(Appended) = Len(pending[k].tasks)
    /\ \A i \in DOMAIN pending[k].tasks :
          LET t == pending[k].tasks[i]
          IN  /\ Appended[i].file = Normalize(t.file, t.compress).file
              /\ t.state = "fulfilled" => Appended[i].id = t.id

\* The step commits a batch submitted in the same step (none of its tasks
\* awaits): the appended documents are the valid files of a FileList, in order.
CommitsSubmission ==
    /\ pending' = pending
    /\ \E fl \in FileLists :
          LET valid == SelectSeq(fl, IsValidFile)
          IN  /\ Len(Appended) = Len(valid)
              /\ \A i \in DOMAIN valid : Appended[i].file = valid[i]

\* C9: a step that adds documents to the working list adds all the documents
\* of exactly one batch, after the documents the list held, in the order in
\* which the files of the batch were submitted; a document of a batch that is
\* still being normalized is not in the list.
C9_BatchAppendedInSubmissionOrder ==
    /\ [][Len(files') > Len(files) =>
             /\ SubSeq(files', 1, Len(files)) = files
             /\ \/ \E k \in DOMAIN pending : CommitsCall(k)
                \/ CommitsSubmission]_vars
    /\ [](\A d \in DocIds : fate[d] = "task" => d \notin Ids(files))

\* The list holds an earlier document followed by the two documents of one
\* batch whose second task finished first (ids are drawn as tasks finish).
C9_Witness ==
    /\ Len(files) = 3
    /\ files[1].id < files[3].id
    /\ files[3].id < files[2].id
    /\ files[2].file.name[1] = "b"
    /\ files[3].file.name[1] = "w"
    /\ pending = <<>>

\* C10: no merge starts while a call of processAndAddFiles is waiting for its
\* normalization tasks.
C10_NoMergeStartsWhileJoinPending ==
    [][(merge.pc = "idle" /\ merge'.pc # "idle") => pending = <<>>]_vars

\* The pages the delivered signing drew on, over all its documents.
Drawn ==
    IF stamped = <<>> THEN {}
    ELSE UNION {{stamped[1].signedPdfs[k].drawn[j] : j \in DOMAIN stamped[1].signedPdfs[k].drawn} :
                  k \in DOMAIN stamped[1].signedPdfs}

\* The signing that was delivered ran in interactive placement mode over a
\* preview render.
InteractiveSigning ==
    /\ stamped # <<>>
    /\ stamped[1].by.useVisualPlacement
    /\ stamped[1].by.canvasDims # <<>>

\* C4: in interactive placement mode, with a preview render of size (W, H),
\* a drag position (x, y) and a target page of size (Wt, Ht), the image is
\* drawn at px with px * W = x * Wt and at py with
\* (Ht - py - ah) * H = y * Ht, its height being ah = natural height * scale;
\* every page of every document of the batch is drawn on (pagesToSign ALL).
C4_InteractivePlacementFormula ==
    InteractiveSigning =>
        LET by == stamped[1].by
            W == by.canvasDims[1].width
            H == by.canvasDims[1].height
            ah == Mul(by.signatureImage.natural.height, by.signatureScale)
        IN  /\ \A d \in Drawn :
                  /\ Mul(d.image.x, W) = Mul(by.dragPos.x, d.size.width)
                  /\ Mul(Sub(Sub(d.size.height, d.image.y), ah), H) = Mul(by.dragPos.y, d.size.height)
                  /\ d.image.height = ah
            /\ \A k \in DOMAIN by.pdfs :
                  by.pagesToSign = "ALL" =>
                      Len(stamped[1].signedPdfs[k].drawn) = Len(by.pdfs[k].file.sizes)

\* A signing was delivered after the signature had been dragged away from its
\* initial position over a preview, and one page it drew on has another size
\* than the previewed page.
C4_Witness ==
    /\ InteractiveSigning
    /\ stamped[1].by.dragPos # [x |-> Whole(InitialDragPos), y |-> Whole(InitialDragPos)]
    /\ Less(Whole(0), stamped[1].by.dragPos.x)
    /\ Less(Whole(0), stamped[1].by.dragPos.y)
    /\ \E d \in Drawn : d.size # stamped[1].by.seen.pdfPageDimensions[1]
    /\ \E d \in Drawn : Less(Whole(0), d.image.x) /\ Less(Whole(0), d.image.y)

\* C5: while the preview is shown with a loaded signature, the drag position
\* keeps the footprint of the signature inside the canvas: 0 <= x, 0 <= y,
\* x + footprint width <= W and y + footprint height <= H.
C5_FootprintInsidePreview ==
    (canvas # <<>> /\ sigImageDims # <<>>) =>
        /\ ~Less(dragPos.x, Whole(0))
        /\ ~Less(dragPos.y, Whole(0))
        /\ ~Less(canvas.width, Add(dragPos.x, VisualWidth))
        /\ ~Less(canvas.height, Add(dragPos.y, VisualHeight))

\* At the click the footprint of the signature was centred in the preview:
\* the drag position is the centre of the preview less half the footprint.
CenteredInPreview ==
    /\ InteractiveSigning
    /\ stamped[1].by.seen.footprint # <<>>
    /\ LET by == stamped[1].by
           foot == by.seen.footprint[1]
       IN  /\ Add(by.dragPos.x, Half(foot.width)) = Half(by.canvasDims[1].width)
           /\ Add(by.dragPos.y, Half(foot.height)) = Half(by.canvasDims[1].height)

\* The rectangle drawn on a page has the centre of the page as its centre.
CenteredOnPage(d) ==
    /\ Add(d.image.x, Half(d.image.width)) = Half(d.size.width)
    /\ Add(d.image.y, Half(d.image.height)) = Half(d.size.height)

\* The preview render is the render of the reference page whose size the view
\* holds: it has that page's proportions.
PreviewOfReferencePage ==
    /\ stamped[1].by.seen.pdfPageDimensions # <<>>
    /\ LET ref == stamped[1].by.seen.pdfPageDimensions[1]
           cd == stamped[1].by.canvasDims[1]
       IN  Mul(cd.height, ref.width) = Mul(cd.width, ref.height)

\* C6 (as stated): a signature centred in the preview is drawn centred on
\* every target page, whatever the size of the page.
C6_CenteredOnEveryPage ==
    CenteredInPreview => \A d \in Drawn : CenteredOnPage(d)

\* C6 (amended): a signature centred in the preview of the reference page is
\* drawn centred on every target page that has the size of the reference page.
C6_CenteredOnPagesOfReferenceSize ==
    (CenteredInPreview /\ PreviewOfReferencePage) =>
        \A d \in Drawn : d.size = stamped[1].by.seen.pdfPageDimensions[1] => CenteredOnPage(d)

\* A signing was delivered with the signature centred in the preview of a page
\* whose render is half its size, and drew on a page of that size.
C6_Witness ==
    /\ CenteredInPreview
    /\ PreviewOfReferencePage
    /\ stamped[1].by.canvasDims[1].width # stamped[1].by.seen.pdfPageDimensions[1].width
    /\ \E d \in Drawn : d.size = stamped[1].by.seen.pdfPageDimensions[1] /\ CenteredOnPage(d)

\* ----------------------------------------------------------------- merge runs
\* C13: cancelling the save picker is a silent no-op.  The step in which the
\* picker's promise rejects with AbortError sets no error message, leaves the
\* list, the output name and the name-source flag unchanged, hands nothing to
\* the save collaborator and clears the merging flag.
C13_CancelledSaveIsSilent ==
    [][(merge.pc = "picking" /\ merge'.ended = "AbortError") =>
         /\ error' = error
         /\ error' # ErrMerge
         /\ files' = files
         /\ mergedFileName' = mergedFileName
         /\ fileNameSourceId' = fileNameSourceId
         /\ delivered' = delivered
         /\ isMerging /\ ~isMerging']_vars

\* A merge named after one of its documents was cancelled at the picker: the
\* list, the name and the flag are still there and no error is shown.
C13_Witness ==
    /\ merge.pc = "idle"
    /\ merge.ended = "AbortError"
    /\ ~isMerging
    /\ error = NoError
    /\ files # <<>>
    /\ fileNameSourceId # NoSource
    /\ mergedFileName # DefaultName

\* The document the loop of createMergedPdfBlob is at cannot be loaded
AtUnloadable ==
    /\ merge.pc = "loading"
    /\ merge.k <= Len(merge.files)
    /\ ~Loadable(merge.files[merge.k].file)

\* C14: the merge stops at the first document that cannot be loaded.  The call
\* has read only the documents before it; its next step ends the call, hands
\* nothing to the save collaborator, sets the merge error and leaves the list,
\* the output name and the name-source flag unchanged.
C14_UnloadableDocumentAbortsMerge ==
    /\ [](AtUnloadable => Len(merge.read) = merge.k - 1)
    /\ [][(AtUnloadable /\ merge' # merge) =>
            /\ merge'.pc = "idle"
            /\ merge'.ended = "Error"
            /\ delivered' = delivered
            /\ error' = ErrMerge
            /\ files' = files
            /\ mergedFileName' = mergedFileName
            /\ fileNameSourceId' = fileNameSourceId
            /\ ~isMerging']_vars

\* A merge stopped at an unloadable document that came after a loadable one:
\* the list of two, the chosen name and the flag are still there, the error is
\* shown and nothing was ever handed over.
C14_Witness ==
    /\ merge.pc = "idle"
    /\ merge.ended = "Error"
    /\ error = ErrMerge
    /\ delivered = NoArtifact
    /\ Len(files) = 2
    /\ Loadable(files[1].file)
    /\ ~Loadable(files[2].file)
    /\ fileNameSourceId # NoSource

\* ------------------------------------------------- page configuration store
\* Every page configuration entry a document of the list or the editor holds
StoredEntries ==
    UNION {{files[k].pageConfig[1][i] : i \in ConfigIndices(files[k])} : k \in DOMAIN files}
    \cup {editor.config[i] : i \in DOMAIN editor.config}

\* C17: every stored rotation is one of 0, 90, 180, 270, in the editor's
\* configuration and in the configuration of every document of the list.
C17_StoredRotationsNormalized ==
    \A e \in StoredEntries : e.rotation \in Quadrants

\* A page saved with rotation 270 was rotated once more in a later session and
\* is at 0 in the editor, its selected flag kept.
C17_Witness ==
    /\ EditorReady
    /\ editor.owner = editor.id
    /\ \E k \in DOMAIN files, i \in DOMAIN editor.config :
          /\ files[k].id = editor.id
          /\ i \in ConfigIndices(files[k])
          /\ files[k].pageConfig[1][i] = [selected |-> FALSE, rotation |-> 270]
          /\ editor.config[i] = [selected |-> FALSE, rotation |-> 0]

\* The configuration after rotate was applied to index `times` times in a row
RECURSIVE RotatedTimes(_, _, _)
RotatedTimes(config, index, times) ==
    IF times = 0 THEN Returns(config)
    ELSE LET before == RotatedTimes(config, index, times - 1)
         IN  IF before.threw THEN before ELSE RotatedConfig(before.config, index)

\* C18: for every page of the editor that has an entry, one rotate changes
\* only the rotation of that entry, by a quarter turn, and four rotates in a
\* row give back the configuration they started from.
C18_FourRotationsAreIdentity ==
    EditorReady =>
        \A i \in DOMAIN editor.config :
            LET once == RotatedTimes(editor.config, i, 1)
                four == RotatedTimes(editor.config, i, 4)
            IN  /\ ~once.threw
                /\ DOMAIN once.config = DOMAIN editor.config
                /\ once.config[i].selected = editor.config[i].selected
                /\ once.config[i].rotation # editor.config[i].rotation
                /\ \A j \in DOMAIN editor.config \ {i} : once.config[j] = editor.config[j]
                /\ ~four.threw
                /\ four.config = editor.config

\* The editor shows two pages: one deselected and rotated three times, whose
\* next rotate wraps around, the other rotated once.
C18_Witness ==
    /\ EditorReady
    /\ editor.numPages = 2
    /\ DOMAIN editor.config = {0, 1}
    /\ editor.config[0] = [selected |-> TRUE, rotation |-> 90]
    /\ editor.config[1] = [selected |-> FALSE, rotation |-> 270]

\* get(index): the entry, or the default when there is none
Resolved(config, index) ==
    IF index \in DOMAIN config THEN config[index] ELSE DefaultPageConfig

\* next is config with the entry of index replaced by entry, created if absent
MergedInto(next, config, index, entry) ==
    /\ ~next.threw
    /\ DOMAIN next.config = DOMAIN config \cup {index}
    /\ next.config[index] = entry
    /\ \A j \in DOMAIN config \ {index} : next.config[j] = config[j]

\* C19: for every page tile of the editor, toggling and rotating merge the one
\* field into the entry of that index: the other field keeps its value, the
\* other indices are unchanged, and an index without an entry gets one, with
\* the other field at its default, instead of a failure.
C19_SetMergesIntoEntry ==
    EditorReady =>
        \A i \in 0..(editor.numPages - 1) :
            LET old == Resolved(editor.config, i)
            IN  /\ MergedInto(ToggledConfig(editor.config, i), editor.config, i,
                              [selected |-> ~old.selected, rotation |-> old.rotation])
                /\ MergedInto(RotatedConfig(editor.config, i), editor.config, i,
                              [selected |-> old.selected,
                               rotation |-> (old.rotation + 90) % 360])

\* C20: selectAll and deselectAll never fail and leave every index of
\* [0, numPages) with an entry whose selected flag is the value written and
\* whose rotation is the one the index had (0 when it had no entry).
C20_SelectAllCoversEveryIndex ==
    EditorReady =>
        \A value \in BOOLEAN :
            LET r == AllSelected(editor.config, editor.numPages, value)
            IN  /\ ~r.threw
                /\ \A i \in 0..(editor.numPages - 1) :
                      /\ i \in DOMAIN r.config
                      /\ r.config[i].selected = value
                      /\ r.config[i].rotation = Resolved(editor.config, i).rotation

\* ------------------------------------------------------------ stamping batches
\* The step that ends a call of handleSign
SigningEnds == signing # <<>> /\ signing' = <<>>

\* C11: a stamping batch is all or nothing.  The step that ends a signing
\* either hands over an output made of every target document of the click, or
\* hands nothing to the download step, sets the signing error and leaves the
\* target list and the signature image as they were.
C11_FailedStampingAborts ==
    [][SigningEnds =>
         \/ /\ stamped' # <<>>
            /\ Len(stamped'[1].signedPdfs) = Len(signing[1].pdfs)
         \/ /\ stamped' = <<>>
            /\ signError' = ErrSigning
            /\ pdfs' = pdfs
            /\ signatureImage' = signatureImage
            /\ sigImageDims' = sigImageDims]_vars

\* A batch of two documents has failed: nothing was handed over, the error is
\* shown, the two targets and the signature are still there.
C11_Witness ==
    /\ signError = ErrSigning
    /\ stamped = <<>>
    /\ signing = <<>>
    /\ ~isSigning
    /\ Len(pdfs) = 2
    /\ signatureImage # <<>>

\* The name of a file up to its last dot
Stem(name) ==
    LET dots == {i \in DOMAIN name : name[i] = "."}
    IN  IF dots = {} THEN name
        ELSE SubSeq(name, 1, (CHOOSE i \in dots : \A j \in dots : j <= i) - 1)

FirmadoName(name) == Stem(name) \o <<"_", "f", "i", "r", "m", "a", "d", "o", ".", "p", "d", "f">>

\* C12: one target document yields a single pdf named <stem>_firmado.pdf; M > 1
\* target documents yield one archive of exactly M entries, the k-th named
\* after the k-th target document by the same rule.
C12_OnePdfOrArchiveOfAll ==
    stamped # <<>> =>
        LET out == stamped[1]
            targets == out.by.pdfs
        IN  IF Len(targets) = 1
            THEN /\ out.kind = "pdf"
                 /\ out.name = FirmadoName(targets[1].file.name)
            ELSE /\ out.kind = "zip"
                 /\ Len(out.entries) = Len(targets)
                 /\ \A k \in DOMAIN targets :
                        out.entries[k].name = FirmadoName(targets[k].file.name)

\* C15: in fixed-corner mode every stamp sits at the corner of the click,
\* computed from the size (Wt, Ht) of its own page, the footprint (aw, ah) and
\* the margin m: left is x = m, right is x + aw + m = Wt, bottom is y = m, top
\* is y + ah + m = Ht.
C15_FixedCornerFormula ==
    (stamped # <<>> /\ ~stamped[1].by.useVisualPlacement) =>
        \A k \in DOMAIN stamped[1].signedPdfs :
            \A i \in DOMAIN stamped[1].signedPdfs[k].drawn :
                LET by == stamped[1].by
                    d == stamped[1].signedPdfs[k].drawn[i]
                    m == Whole(Padding)
                    aw == Mul(by.signatureImage.natural.width, by.signatureScale)
                    ah == Mul(by.signatureImage.natural.height, by.signatureScale)
                    Wt == stamped[1].by.pdfs[k].file.sizes[d.page].width
                    Ht == stamped[1].by.pdfs[k].file.sizes[d.page].height
                    isLeft == d.image.x = m
                    isRight == Add(Add(d.image.x, aw), m) = Wt
                    isBottom == d.image.y = m
                    isTop == Add(Add(d.image.y, ah), m) = Ht
                IN  /\ d.image.width = aw /\ d.image.height = ah
                    /\ by.position = "TL" => isLeft /\ isTop
                    /\ by.position = "TR" => isRight /\ isTop
                    /\ by.position = "BL" => isLeft /\ isBottom
                    /\ by.position = "BR" => isRight /\ isBottom
                    /\ by.position \in {"TL", "TR", "BL", "BR"}

\* A delivered top-left stamping of the document whose two pages differ in
\* size: the two stamps are at different heights.
C15_Witness ==
    /\ stamped # <<>>
    /\ ~stamped[1].by.useVisualPlacement
    /\ stamped[1].by.position = "TL"
    /\ \E k \in DOMAIN stamped[1].signedPdfs :
          LET drawn == stamped[1].signedPdfs[k].drawn
          IN  /\ Len(drawn) = 2
              /\ drawn[1].size # drawn[2].size
              /\ drawn[1].image.x = drawn[2].image.x

\* C16: the stamped pages of a target document with n pages are, 0-based, all
\* of 0..n-1 for ALL, page 0 for FIRST and page n-1 for LAST, each stamped
\* once; a document without pages gets no stamp and is delivered.
C16_StampedPagesFollowRule ==
    stamped # <<>> =>
        /\ Len(stamped[1].signedPdfs) = Len(stamped[1].by.pdfs)
        /\ \A k \in DOMAIN stamped[1].signedPdfs :
              LET rule == stamped[1].by.pagesToSign
                  n == Len(stamped[1].by.pdfs[k].file.sizes)
                  drawn == stamped[1].signedPdfs[k].drawn
                  zeroBased == {drawn[i].page - 1 : i \in DOMAIN drawn}
              IN  /\ Cardinality(zeroBased) = Len(drawn)
                  /\ rule = "ALL" => zeroBased = 0..(n - 1)
                  /\ (rule = "FIRST" /\ n > 0) => zeroBased = {0}
                  /\ (rule = "LAST" /\ n > 0) => zeroBased = {n - 1}
                  /\ n = 0 => zeroBased = {}
                  /\ rule \in {"ALL", "FIRST", "LAST"}

\* A delivered batch under the rule LAST with a document of two pages, stamped
\* on its second page, and a document without pages.
C16_Witness ==
    /\ stamped # <<>>
    /\ stamped[1].by.pagesToSign = "LAST"
    /\ \E k \in DOMAIN stamped[1].signedPdfs :
          /\ Len(stamped[1].by.pdfs[k].file.sizes) = 2
          /\ Len(stamped[1].signedPdfs[k].drawn) = 1
          /\ stamped[1].signedPdfs[k].drawn[1].page = 2
    /\ \E k \in DOMAIN stamped[1].signedPdfs :
          /\ stamped[1].by.pdfs[k].file.sizes = <<>>
          /\ stamped[1].signedPdfs[k].drawn = <<>>

\* -------------------------------------------------------- normalization batches
\* C27: the processing flag is set whenever at least one call of
\* processAndAddFiles is still waiting for its normalization tasks.
C27_ProcessingWhileBatchPending ==
    pending # <<>> => isProcessing

\* ------------------------------------------------------ interactive stamping
\* C24: a signing that ran with interactive placement selected drew every
\* image at the position the drag position gives (x / W of the page width from
\* the left edge, y / H of the page height from the top edge, (W, H) being the
\* size of the preview render), whatever the order of the uploads, removals
\* and replacements before the click.
C24_InteractiveModeUsesDragPosition ==
    (stamped # <<>> /\ stamped[1].by.useVisualPlacement) =>
        \A d \in Drawn :
            LET by == stamped[1].by
            IN  IF by.canvasDims = <<>> THEN FALSE
                ELSE /\ Mul(d.image.x, by.canvasDims[1].width) = Mul(by.dragPos.x, d.size.width)
                     /\ Mul(Sub(Sub(d.size.height, d.image.y), d.image.height),
                            by.canvasDims[1].height) = Mul(by.dragPos.y, d.size.height)

\* C25: closing the page editor with Cancel leaves the stored page
\* configuration of every document as it was when the editor was opened,
\* whatever was toggled, rotated, selected or deselected in between, on the
\* first opening and on every reopening after a save.
C25_CancelKeepsStoredConfig ==
    [][HandleClosePageEditor => StoredConfigs(files') = editor.before]_vars

\* C26: every entry of the working list holds PDF content: an accepted image
\* or office file is converted before it is listed, whether the filter
\* accepted it for its declared type or for its suffix only.
C26_ListedEntriesHoldPdf ==
    \A k \in DOMAIN files :
        /\ files[k].file.content = "pdf"
        /\ files[k].file.type = MimePdf

\* -------------------------------------------------------------- the working list
\* C29: the name-source flag is null or the id of a document of the working
\* list, after every sequence of additions, removals, reorderings, flag
\* toggles, name edits, and merges that succeed, fail or are cancelled at the
\* save step.
C29_NameSourceIsListed ==
    fileNameSourceId = NoSource \/ fileNameSourceId \in Ids(files)

\* A document is flagged in a list of several, after a reordering moved a
\* document and a merge was cancelled at the save step.
C29_Witness ==
    /\ fileNameSourceId # NoSource
    /\ fileNameSourceId \in Ids(files)
    /\ Len(files) >= 2
    /\ dragging.moved # "no"
    /\ merge.ended = "AbortError"
    /\ \E d \in DocIds : fate[d] = "removed"

\* This step is a run of handleSort.
SortStep == dragging.doc # 0 /\ dragging'.doc = 0

\* C30: a run of handleSort gives a permutation of the list: no document is
\* lost, duplicated or replaced by an empty slot, the dragged document is at
\* the drag-over index, and the other documents keep their relative order,
\* also when the list changed during the drag; with the dragged or the
\* drag-over index unset the list is left as it is.
C30_SortIsAMove ==
    /\ [][SortStep =>
             /\ Len(files') = Len(files)
             /\ Ids(files') = Ids(files)
             /\ \A k \in DOMAIN files' : \E j \in DOMAIN files : files'[k] = files[j]
             /\ dragOverItem + 1 \in DOMAIN files'
             /\ files'[dragOverItem + 1].id = dragging.doc
             /\ SelectSeq(files', LAMBDA f : f.id # dragging.doc)
                  = SelectSeq(files, LAMBDA f : f.id # dragging.doc)]_vars
    /\ [](\A d \in NoIndex..(MaxDocs - 1), o \in NoIndex..(MaxDocs - 1) :
              (d = NoIndex \/ o = NoIndex) => SortedFiles(files, d, o) = files)

\* A document was moved over another one to a place two further, in a list
\* that had grown during the drag.
C30_Witness ==
    /\ dragging.doc = 0
    /\ dragging.moved = "grown"
    /\ Len(files) = 3
    /\ files[3].id < files[1].id
    /\ files[3].id < files[2].id

\* ---------------------------------------------------------------------- C21
\* A click on a merge button: runMergeProcess starts and reads mergedFileName
\* and fileNameSourceId of the render.
MergeClick == merge.pc = "idle" /\ merge'.pc # "idle"
\* The name the save step is given by the run that starts
SuggestedName == FinalName(merge'.name)
FlaggedFile == files[CHOOSE i \in DOMAIN files : files[i].id = fileNameSourceId].file
FlaggedType == files[CHOOSE i \in DOMAIN files : files[i].id = fileNameSourceId].type
EndsInPdf(name) == name # <<>> /\ EndsWith(ToLowerCase(name), DotPdf)

\* C21 as stated: the suggested name of every merge is, while a source is
\* flagged, that source's name with its extension replaced by '.pdf', and
\* otherwise the text of the name field with '.pdf' appended when missing
\* (the default name when the text is blank); it is non-empty and ends in
\* '.pdf' case-insensitively.
C21_Original ==
    [][MergeClick =>
        /\ SuggestedName = IF fileNameSourceId # NoSource
                           THEN ReplaceExtension(FlaggedFile.name, DotPdf)
                           ELSE FinalName(mergedFileName)
        /\ \A name \in {SuggestedName} : EndsInPdf(name)]_vars

\* The ensure-extension rule as the specification words it
EnsureExtension(text) ==
    IF Trim(text) = <<>> THEN DefaultName
    ELSE IF EndsInPdf(Trim(text)) THEN Trim(text) ELSE Trim(text) \o DotPdf

\* C21 amended: the suggested name of every merge is the ensure-extension rule
\* (trim, default name when blank, '.pdf' appended unless present
\* case-insensitively) applied, while a source is flagged, to the source's name
\* as listed (a PDF keeps its own name, a converted source has its extension
\* replaced by '.pdf'), and otherwise to the text of the name field.  Every
\* suggested and every delivered name is non-empty and ends in '.pdf'
\* case-insensitively.
C21_SuggestedNameByPriority ==
    [][/\ MergeClick =>
            /\ \A text \in {IF fileNameSourceId = NoSource THEN mergedFileName
                             ELSE IF FlaggedType = "pdf" THEN FlaggedFile.name
                             ELSE ReplaceExtension(FlaggedFile.name, DotPdf)} :
                    SuggestedName = EnsureExtension(text)
            /\ \A name \in {SuggestedName} : EndsInPdf(name)
       /\ delivered' # delivered =>
            /\ delivered'[1].name = FinalName(merge.name)
            /\ EndsInPdf(delivered'[1].name)]_vars

\* A merge was saved under the name of the flagged PDF s.PDF, kept as it is
\* (no text the user types resolves to that name).
C21_Witness ==
    /\ delivered # <<>>
    /\ delivered[1].name = PdfUpper.name
    /\ merge.ended = "saved"

\* ---------------------------------------------------------------------- C22
\* C22: the ensure-extension rule of the merge is idempotent: applied to its
\* own result it returns that result, for the text of the name field, for the
\* text a running merge took, and for every delivered name.
C22_EnsureExtensionIdempotent ==
    /\ \A once \in {FinalName(mergedFileName)} : FinalName(once) = once
    /\ \A once \in {FinalName(merge.name)} : FinalName(once) = once
    /\ \A i \in DOMAIN delivered : FinalName(delivered[i].name) = delivered[i].name

\* The rule has resolved the name for the save picker from a text it had to
\* trim and whose ending '.Pd' is not the extension, so that it appended.
C22_Witness ==
    /\ merge.pc = "picking"
    /\ merge.name = <<" ", "r", ".", "P", "d">>
    /\ Artifact.name = <<"r", ".", "P", "d">> \o DotPdf

\* ---------------------------------------------------------------------- C23
\* The documents whose load has returned and whose save has not
InProcess(log) ==
    {k \in 1..MaxPdfs : /\ \E i \in DOMAIN log : log[i] = [ev |-> "load", k |-> k]
                        /\ ~\E i \in DOMAIN log : log[i] = [ev |-> "save", k |-> k]}
\* The documents whose save has returned before position i of the log
SavedBefore(log, i) == {log[j].k : j \in {h \in 1..(i - 1) : log[h].ev = "save"}}

\* C23: stamping is sequential: the load of document k+1 returns only after
\* documents 1..k were saved, at most one document is in process at any time,
\* the entries pushed so far are the signed documents 1..k-1 of the target
\* list in its order, and the entries handed to the download are those.
C23_StampingIsSequential ==
    /\ [](signing # <<>> =>
            LET by == signing[1]
                log == by.loop.log
            IN  /\ \A i \in DOMAIN log :
                       log[i].ev = "load" => SavedBefore(log, i) = 1..(log[i].k - 1)
                /\ Cardinality(InProcess(log)) <= 1
                /\ by.loop.signedPdfs =
                       [j \in 1..(by.loop.k - 1) |-> SignedPdf(by, by.pdfs[j])])
    /\ [][(signing # <<>> /\ signing' = <<>> /\ stamped' # <<>>) =>
            /\ stamped'[1].signedPdfs = signing[1].loop.signedPdfs
            /\ Len(stamped'[1].signedPdfs) = Len(signing[1].pdfs)
            /\ \A j \in DOMAIN signing[1].pdfs :
                   stamped'[1].signedPdfs[j] = SignedPdf(signing[1], signing[1].pdfs[j])]_vars

\* A batch of two different target documents was stamped turn by turn and
\* handed to the download as a zip.
C23_Witness ==
    /\ stamped # <<>>
    /\ stamped[1].kind = "zip"
    /\ Len(stamped[1].by.pdfs) = 2
    /\ stamped[1].by.pdfs[1].file # stamped[1].by.pdfs[2].file
    /\ stamped[1].by.loop.log = <<[ev |-> "load", k |-> 1], [ev |-> "save", k |-> 1],
                                  [ev |-> "load", k |-> 2], [ev |-> "save", k |-> 2]>>

\* ---------------------------------------------------------------------- C28
\* C28: every normalization batch, merge and stamping run that was started
\* eventually ends, and a busy flag that is set is eventually cleared; the
\* step that ends a batch or a run leaves its flag cleared.
C28_BusyFlagsEventuallyCleared ==
    /\ isProcessing ~> ~isProcessing
    /\ isMerging ~> ~isMerging
    /\ isSigning ~> ~isSigning
    /\ (pending # <<>>) ~> (pending = <<>> /\ ~isProcessing)
    /\ (merge.pc # "idle") ~> (merge.pc = "idle" /\ ~isMerging)
    /\ (signing # <<>>) ~> (signing = <<>> /\ ~isSigning)
    /\ [][/\ Len(pending') < Len(pending) => ~isProcessing'
          /\ (merge.pc # "idle" /\ merge'.pc = "idle") => ~isMerging'
          /\ (signing # <<>> /\ signing' = <<>>) => ~isSigning']_vars

\* A merge was cancelled at the save picker, after a normalization batch had
\* ended by a failed conversion, and no busy flag is set.
C28_Witness ==
    /\ merge.ended = "AbortError"
    /\ \E d \in DocIds : fate[d] = "failed"
    /\ ~isMerging
    /\ ~isProcessing
    /\ pending = <<>>

====
